---- MODULE Spec2Model ----
(***************************************************************************)
(* Type-variable constraint inference of mypy (mypy/constraints.py).       *)
(*                                                                         *)
(* Types are records tagged by "kind".  Classes (TypeInfo), their members  *)
(* and the recursive aliases form a small fixed program under analysis.    *)
(* infer_constraints and everything it calls are operators that thread the *)
(* two guard stacks (TypeState.inferring and TypeInfo.inferring) through   *)
(* the descent and return an outcome record                                *)
(*     [res, st, inf, pinf]                                                *)
(* res  : the constraint list returned (meaningful when st = "ok")         *)
(* st   : "ok", or the exception that left the call: "fatal" (assert       *)
(*        False / RuntimeError), "notimpl" (NotImplementedError),          *)
(*        "overflow" (RecursionError, the interpreter's depth limit)       *)
(* inf  : TypeState.inferring when the call is left                        *)
(* pinf : TypeInfo.inferring of every protocol class when it is left       *)
(***************************************************************************)
EXTENDS Integers, Sequences, FiniteSets, TLC

\* ------------------------------------------------------------------ bounds
\* Depth of nested infer_constraints calls the interpreter allows.
MaxDepth == 8
\* Number of options handed to the combinator at once.
MaxOptions == 3

\* ---------------------------------------------------------- direction ops
SUBTYPE_OF == 0
SUPERTYPE_OF == 1

\* ------------------------------------------------------- generic helpers
RECURSIVE SeqToSet(_)
SeqToSet(s) == IF s = <<>> THEN {} ELSE {Head(s)} \cup SeqToSet(Tail(s))

RECURSIVE Flatten(_)
Flatten(ss) == IF ss = <<>> THEN <<>> ELSE Head(ss) \o Flatten(Tail(ss))

Min(a, b) == IF a < b THEN a ELSE b

\* s[from..to] with Python slice clamping (1-based, inclusive)
Slice(s, from, to) == IF from > to THEN <<>> ELSE SubSeq(s, from, Min(to, Len(s)))

\* ------------------------------------------------------ type constructors
AnyType(of) == [kind |-> "Any", type_of_any |-> of]
AnyExplicit == AnyType("explicit")
NoneType == [kind |-> "None"]
UninhabitedType == [kind |-> "Uninhabited"]
ErasedType == [kind |-> "Erased"]
DeletedType == [kind |-> "Deleted"]
UnboundType == [kind |-> "Unbound"]
PartialType == [kind |-> "Partial"]
Instance(type, args) == [kind |-> "Instance", type |-> type, args |-> args]
ObjectT == Instance("object", <<>>)
IntT == Instance("int", <<>>)
StrT == Instance("str", <<>>)
FunctionT == Instance("function", <<>>)
LiteralType(value, fallback) == [kind |-> "Literal", value |-> value, fallback |-> fallback]
TypeVarType(id, variance, upper_bound, values) ==
    [kind |-> "TypeVar", id |-> id, variance |-> variance,
     upper_bound |-> upper_bound, values |-> values]
ParamSpecType(id, prefix) ==
    [kind |-> "ParamSpec", id |-> id, prefix |-> prefix, upper_bound |-> ObjectT]
TypeVarTupleType(id) == [kind |-> "TypeVarTuple", id |-> id, upper_bound |-> ObjectT]
UnpackType(t) == [kind |-> "Unpack", type |-> t]
Parameters(arg_types, arg_kinds) ==
    [kind |-> "Parameters", arg_types |-> arg_types, arg_kinds |-> arg_kinds]
TypeList(items) == [kind |-> "TypeList", items |-> items]
UnionType(items) == [kind |-> "Union", items |-> items]
TupleType(items, partial_fallback) ==
    [kind |-> "Tuple", items |-> items, partial_fallback |-> partial_fallback]
TypedDictType(items, fallback) == [kind |-> "TypedDict", items |-> items, fallback |-> fallback]
Overloaded(items) == [kind |-> "Overloaded", items |-> items, fallback |-> FunctionT]
TypeType(item) == [kind |-> "TypeType", item |-> item]
TypeAliasType(name, args) == [kind |-> "Alias", name |-> name, args |-> args]
\* A callable: arg_kinds are "POS", "OPT", "STAR", "NAMED", "STAR2"; type_guard
\* is <<>> or <<type>>; a parameter-specification tail is the pair of
\* arguments P.args ("STAR"), P.kwargs ("STAR2") at the end of arg_types.
CallableType(arg_types, arg_kinds, ret_type) ==
    [kind |-> "Callable", arg_types |-> arg_types, arg_kinds |-> arg_kinds,
     ret_type |-> ret_type, is_ellipsis_args |-> FALSE, type_guard |-> <<>>,
     fallback |-> FunctionT, is_type_obj |-> FALSE, from_concatenate |-> FALSE]
PosKinds(n) == [i \in 1..n |-> "POS"]
Func(arg_types, ret_type) == CallableType(arg_types, PosKinds(Len(arg_types)), ret_type)

\* ------------------------------------------------- the program's variables
\* Type variables of the generic function under inference
T == TypeVarType("T", "invariant", ObjectT, <<>>)
S == TypeVarType("S", "invariant", ObjectT, <<>>)
\* a type variable with upper bound int
TB == TypeVarType("TB", "invariant", IntT, <<>>)
\* a type variable bounded by the callback protocol CallProto[int]
TC == TypeVarType("TC", "invariant", Instance("CallProto", <<IntT>>), <<>>)
\* a type variable outside the template (free in the enclosing scope)
V == TypeVarType("V", "invariant", ObjectT, <<>>)
Ts == TypeVarTupleType("Ts")
P == ParamSpecType("P", Parameters(<<>>, <<>>))
\* Concatenate[T, P]: P with the prefix (T)
PT == ParamSpecType("P", Parameters(<<T>>, PosKinds(1)))
\* a parameter specification of the enclosing scope
Q == ParamSpecType("Q", Parameters(<<>>, <<>>))

\* Type variables declared by the generic classes
ListT == TypeVarType("List.T", "invariant", ObjectT, <<>>)
BoxT == TypeVarType("Box.T", "covariant", ObjectT, <<>>)
SinkT == TypeVarType("Sink.T", "contravariant", ObjectT, <<>>)
TupleT == TypeVarType("tuple.T", "covariant", ObjectT, <<>>)
ProtoT == TypeVarType("Proto.T", "invariant", ObjectT, <<>>)
CallProtoT == TypeVarType("CallProto.T", "invariant", ObjectT, <<>>)
LinkedT == TypeVarType("Linked.T", "invariant", ObjectT, <<>>)
HasShapeT == TypeVarType("HasShape.T", "invariant", ObjectT, <<>>)
ArrTs == TypeVarTupleType("Arr.Ts")
FnP == ParamSpecType("Fn.P", Parameters(<<>>, <<>>))

\* ------------------------------------------------------ recursive aliases
\* Nested[T] = Union[T, List[Nested[T]]], NestedInt = Nested[int],
\* JSON = Union[int, List[JSON]] (no variable)
Nested == TypeAliasType("Nested", <<T>>)
NestedInt == TypeAliasType("NestedInt", <<IntT>>)
JSON == TypeAliasType("JSON", <<>>)
\* erase_typevars(Nested[T]) = Nested[Any]
NestedAny == TypeAliasType("NestedAny", <<AnyType("special_form")>>)
AliasTarget(name) ==
    CASE name = "Nested" -> UnionType(<<T, Instance("List", <<Nested>>)>>)
      [] name = "NestedInt" -> UnionType(<<IntT, Instance("List", <<NestedInt>>)>>)
      [] name = "JSON" -> UnionType(<<IntT, Instance("List", <<JSON>>)>>)
      [] name = "NestedAny" ->
            UnionType(<<AnyType("special_form"), Instance("List", <<NestedAny>>)>>)

\* get_proper_type: expand a type alias to its target
get_proper_type(t) == IF t.kind = "Alias" THEN AliasTarget(t.name) ELSE t


\* ---------------------------------------------------------- class table
\* TypeInfo.defn.type_vars
ClassTypeVars(c) ==
    CASE c = "List" -> <<ListT>>
      [] c = "Box" -> <<BoxT>>
      [] c = "Sink" -> <<SinkT>>
      [] c = "tuple" -> <<TupleT>>
      [] c = "Proto" -> <<ProtoT>>
      [] c = "CallProto" -> <<CallProtoT>>
      [] c = "Linked" -> <<LinkedT>>
      [] c = "HasShape" -> <<HasShapeT>>
      [] c = "Arr" -> <<ArrTs>>
      [] c = "Fn" -> <<FnP>>
      [] OTHER -> <<>>

\* the direct base of a class, over the class's own type variables
ClassBases(c) ==
    CASE c = "object" -> <<>>
      [] c = "IntBox" -> <<Instance("Box", <<IntT>>)>>
      [] c = "bool" -> <<IntT>>
      [] OTHER -> <<ObjectT>>

\* TypeInfo.is_protocol and TypeInfo.protocol_members (sorted by name)
ProtocolMembers(c) ==
    CASE c = "Proto" -> <<"get", "val">>
      [] c = "CallProto" -> <<"__call__">>
      [] c = "Linked" -> <<"next", "val">>
      [] c = "HasShape" -> <<"shape">>
      [] OTHER -> <<>>
IsProtocol(c) == c \in {"Proto", "CallProto", "Linked", "HasShape"}
ProtocolClasses == {"Proto", "CallProto", "Linked", "HasShape"}

\* members a class declares: <<>> or <<[type, is_method, settable]>>
Member(type, is_method, settable) ==
    <<[type |-> type, is_method |-> is_method, settable |-> settable]>>
ClassMember(c, name) ==
    CASE c = "Proto" /\ name = "get" -> Member(Func(<<>>, ProtoT), TRUE, FALSE)
      [] c = "Proto" /\ name = "val" -> Member(ProtoT, FALSE, TRUE)
      [] c = "Impl" /\ name = "get" -> Member(Func(<<>>, IntT), TRUE, FALSE)
      [] c = "Impl" /\ name = "val" -> Member(IntT, FALSE, TRUE)
      [] c = "Half" /\ name = "get" -> Member(Func(<<>>, IntT), TRUE, FALSE)
      [] c = "CallProto" /\ name = "__call__" ->
            Member(Func(<<CallProtoT>>, CallProtoT), TRUE, FALSE)
      [] c = "Adder" /\ name = "__call__" -> Member(Func(<<IntT>>, StrT), TRUE, FALSE)
      [] c = "Linked" /\ name = "next" ->
            Member(Instance("Linked", <<LinkedT>>), FALSE, FALSE)
      [] c = "Linked" /\ name = "val" -> Member(LinkedT, FALSE, FALSE)
      [] c = "IntList" /\ name = "next" -> Member(Instance("IntList", <<>>), FALSE, FALSE)
      [] c = "IntList" /\ name = "val" -> Member(IntT, FALSE, FALSE)
      [] c = "HasShape" /\ name = "shape" ->
            Member(Instance("Arr", <<HasShapeT>>), FALSE, TRUE)
      [] c = "ImplShape" /\ name = "shape" ->
            Member(Instance("Arr", <<IntT>>), FALSE, TRUE)
      [] OTHER -> <<>>

\* -------------------------------------------------- queries over a type
\* the direct component types a TypeQuery visits
Components(t) ==
    CASE t.kind = "Instance" -> t.args
      [] t.kind = "Union" -> t.items
      [] t.kind = "Tuple" -> t.items
      [] t.kind = "TypeList" -> t.items
      [] t.kind = "Overloaded" -> t.items
      [] t.kind = "Callable" -> t.arg_types \o <<t.ret_type>>
      [] t.kind = "Parameters" -> t.arg_types
      [] t.kind = "TypedDict" -> [i \in 1..Len(t.items) |-> t.items[i].type]
      [] t.kind = "TypeType" -> <<t.item>>
      [] t.kind = "Unpack" -> <<t.type>>
      [] t.kind = "Alias" -> t.args
      [] t.kind = "TypeVar" -> <<t.upper_bound>> \o t.values
      [] OTHER -> <<>>

RECURSIVE has_type_vars(_)
has_type_vars(t) ==
    \/ t.kind \in {"TypeVar", "ParamSpec", "TypeVarTuple"}
    \/ \E i \in 1..Len(Components(t)) : has_type_vars(Components(t)[i])

\* every alias of the program is recursive
RECURSIVE has_recursive_types(_)
has_recursive_types(t) ==
    \/ t.kind = "Alias"
    \/ \E i \in 1..Len(Components(t)) : has_recursive_types(Components(t)[i])

RECURSIVE is_complete_type(_)
is_complete_type(t) ==
    /\ t.kind # "Uninhabited"
    /\ \A i \in 1..Len(Components(t)) : is_complete_type(Components(t)[i])

RECURSIVE is_union_with_any(_)
is_union_with_any(t) ==
    LET tp == get_proper_type(t) IN
    \/ tp.kind = "Any"
    \/ /\ tp.kind = "Union"
       /\ \E i \in 1..Len(tp.items) : is_union_with_any(tp.items[i])

\* substitute type variables by id; env is a function from ids to types
RECURSIVE Subst(_, _)
SubstSeq(s, env) == [i \in 1..Len(s) |-> Subst(s[i], env)]
Subst(t, env) ==
    CASE t.kind \in {"TypeVar", "ParamSpec", "TypeVarTuple"} ->
            IF t.id \in DOMAIN env THEN env[t.id] ELSE t
      [] t.kind = "Instance" -> [t EXCEPT !.args = SubstSeq(t.args, env)]
      [] t.kind = "Union" -> [t EXCEPT !.items = SubstSeq(t.items, env)]
      [] t.kind = "Tuple" -> [t EXCEPT !.items = SubstSeq(t.items, env)]
      [] t.kind = "Overloaded" -> [t EXCEPT !.items = SubstSeq(t.items, env)]
      [] t.kind = "Callable" ->
            [t EXCEPT !.arg_types = SubstSeq(t.arg_types, env),
                      !.ret_type = Subst(t.ret_type, env)]
      [] t.kind = "TypeType" -> [t EXCEPT !.item = Subst(t.item, env)]
      [] t.kind = "Unpack" -> [t EXCEPT !.type = Subst(t.type, env)]
      [] OTHER -> t

\* erase_typevars: every type variable becomes Any
RECURSIVE EraseTypeVars(_)
EraseSeq(s) == [i \in 1..Len(s) |-> EraseTypeVars(s[i])]
EraseTypeVars(t) ==
    CASE t.kind \in {"TypeVar", "ParamSpec", "TypeVarTuple"} -> AnyType("special_form")
      [] t.kind = "Alias" -> IF t.name = "Nested" THEN NestedAny ELSE t
      [] t.kind = "Instance" -> [t EXCEPT !.args = EraseSeq(t.args)]
      [] t.kind = "Union" -> [t EXCEPT !.items = EraseSeq(t.items)]
      [] t.kind = "Tuple" -> [t EXCEPT !.items = EraseSeq(t.items)]
      [] t.kind = "Overloaded" -> [t EXCEPT !.items = EraseSeq(t.items)]
      [] t.kind = "Callable" ->
            [t EXCEPT !.arg_types = EraseSeq(t.arg_types),
                      !.ret_type = EraseTypeVars(t.ret_type)]
      [] t.kind = "TypeType" -> [t EXCEPT !.item = EraseTypeVars(t.item)]
      [] t.kind = "Unpack" -> [t EXCEPT !.type = EraseTypeVars(t.type)]
      [] OTHER -> t

\* Type.__eq__ / __hash__: types compare by this canonical form.  Every Any
\* equals every other Any, a union compares by the set of its items, an alias
\* by its name and arguments, anything else by its structure.
RECURSIVE TypeKey(_)
KeySeq(s) == [i \in 1..Len(s) |-> TypeKey(s[i])]
TypeKey(t) ==
    CASE t.kind = "Any" -> [kind |-> "Any"]
      [] t.kind = "Union" -> [kind |-> "Union", items |-> {TypeKey(t.items[i]) : i \in 1..Len(t.items)}]
      [] t.kind \in {"Instance", "Alias"} -> [t EXCEPT !.args = KeySeq(t.args)]
      [] t.kind \in {"Tuple", "Overloaded", "TypeList"} -> [t EXCEPT !.items = KeySeq(t.items)]
      [] t.kind = "Callable" ->
            [t EXCEPT !.arg_types = KeySeq(t.arg_types), !.ret_type = TypeKey(t.ret_type)]
      [] t.kind = "TypeType" -> [t EXCEPT !.item = TypeKey(t.item)]
      [] t.kind = "Unpack" -> [t EXCEPT !.type = TypeKey(t.type)]
      [] OTHER -> t
type_eq(a, b) == TypeKey(a) = TypeKey(b)

\* TypeInfo.has_base: the class or one of its ancestors is named base
RECURSIVE has_base(_, _)
has_base(c, base) ==
    \/ c = base
    \/ \E i \in 1..Len(ClassBases(c)) : has_base(ClassBases(c)[i].type, base)

\* the type arguments of an instance as a substitution of its class's variables
ArgEnv(inst) ==
    LET tvs == ClassTypeVars(inst.type)
        n == Min(Len(tvs), Len(inst.args)) IN
    IF Len(tvs) = 1 /\ tvs[1].kind = "TypeVarTuple"
    THEN [id \in {} |-> inst]
    ELSE [id \in {tvs[i].id : i \in 1..n} |->
            inst.args[CHOOSE i \in 1..n : tvs[i].id = id]]

\* map_instance_to_supertype: the instance seen as an instance of an ancestor
RECURSIVE MapInstanceToSupertype(_, _)
MapInstanceToSupertype(inst, super) ==
    IF inst.type = super THEN inst
    ELSE IF ClassBases(inst.type) = <<>> THEN Instance(super, <<>>)
    ELSE MapInstanceToSupertype(Subst(ClassBases(inst.type)[1], ArgEnv(inst)), super)

\* find_member: the type of a member looked up on an instance (<<>> if absent);
\* on a class object only methods are found
RECURSIVE FindMember(_, _, _)
FindMember(name, itype, class_obj) ==
    LET own == ClassMember(itype.type, name) IN
    IF own # <<>>
    THEN IF class_obj /\ ~own[1].is_method THEN <<>>
         ELSE <<Subst(own[1].type, ArgEnv(itype))>>
    ELSE IF ClassBases(itype.type) = <<>> THEN <<>>
    ELSE FindMember(name, Subst(ClassBases(itype.type)[1], ArgEnv(itype)), class_obj)

\* get_member_flags: IS_SETTABLE of a member of the protocol
RECURSIVE IsSettable(_, _)
IsSettable(name, c) ==
    IF ClassMember(c, name) # <<>> THEN ClassMember(c, name)[1].settable
    ELSE IF ClassBases(c) = <<>> THEN FALSE
    ELSE IsSettable(name, ClassBases(c)[1].type)


\* ------------------------------------------------------ subtype oracle
\* tuple_fallback: the variable-length tuple class a fixed tuple falls back to
tuple_fallback(t) == t.partial_fallback

\* is_subtype / is_proper_subtype.  asm holds the pairs assumed to hold while
\* a recursive alias or a protocol is being compared (TypeState._assuming);
\* proper = TRUE gives is_proper_subtype, where Any is related only to Any.
RECURSIVE Sub(_, _, _, _)
SubArgs(l, r, asm, proper) ==
    LET tvs == ClassTypeVars(r.type) IN
    IF Len(tvs) = 1 /\ tvs[1].kind = "TypeVarTuple"
    THEN /\ Len(l.args) = Len(r.args)
         /\ \A i \in 1..Len(l.args) :
               Sub(l.args[i], r.args[i], asm, proper) /\ Sub(r.args[i], l.args[i], asm, proper)
    ELSE \A i \in 1..Min(Len(tvs), Min(Len(l.args), Len(r.args))) :
            /\ tvs[i].variance # "contravariant" => Sub(l.args[i], r.args[i], asm, proper)
            /\ tvs[i].variance # "covariant" => Sub(r.args[i], l.args[i], asm, proper)
ProtoImpl(l, r, asm, proper) ==
    \A i \in 1..Len(ProtocolMembers(r.type)) :
        LET m == ProtocolMembers(r.type)[i]
            lm == FindMember(m, l, FALSE)
            rm == FindMember(m, r, FALSE) IN
        /\ lm # <<>> /\ rm # <<>>
        /\ Sub(lm[1], rm[1], asm, proper)
        /\ IsSettable(m, r.type) => Sub(rm[1], lm[1], asm, proper)
SubCallable(l, r, asm, proper) ==
    /\ \/ l.is_ellipsis_args \/ r.is_ellipsis_args
       \/ /\ Len(l.arg_types) = Len(r.arg_types)
          /\ \A i \in 1..Len(l.arg_types) : Sub(r.arg_types[i], l.arg_types[i], asm, proper)
    /\ Sub(l.ret_type, r.ret_type, asm, proper)
Sub(left, right, asm, proper) ==
    LET l == get_proper_type(left)
        r == get_proper_type(right)
        asm2 == asm \cup {<<left, right>>} IN
    IF <<left, right>> \in asm \/ type_eq(l, r) THEN TRUE
    ELSE IF l.kind = "Any" \/ r.kind = "Any"
         THEN IF proper THEN l.kind = r.kind ELSE TRUE
    ELSE IF l.kind = "Uninhabited" THEN TRUE
    ELSE IF r = ObjectT THEN TRUE
    ELSE IF l.kind = "Union" THEN \A i \in 1..Len(l.items) : Sub(l.items[i], right, asm2, proper)
    ELSE IF r.kind = "Union" THEN \E i \in 1..Len(r.items) : Sub(left, r.items[i], asm2, proper)
    ELSE IF l.kind = "TypeVar" THEN Sub(l.upper_bound, right, asm2, proper)
    ELSE IF l.kind = "Literal" THEN Sub(l.fallback, right, asm2, proper)
    ELSE IF l.kind = "Instance" /\ r.kind = "Instance"
         THEN \/ /\ has_base(l.type, r.type)
                 /\ SubArgs(MapInstanceToSupertype(l, r.type), r, asm2, proper)
              \/ IsProtocol(r.type) /\ ProtoImpl(l, r, asm2, proper)
    ELSE IF l.kind = "Callable" /\ r.kind = "Callable" THEN SubCallable(l, r, asm2, proper)
    ELSE IF l.kind = "Overloaded" /\ r.kind = "Callable"
         THEN \E i \in 1..Len(l.items) : SubCallable(l.items[i], r, asm2, proper)
    ELSE IF l.kind \in {"Callable", "Overloaded"} /\ r.kind = "Instance"
         THEN \/ has_base(l.fallback.type, r.type)
              \/ /\ ProtocolMembers(r.type) = <<"__call__">>
                 /\ Sub(left, FindMember("__call__", r, FALSE)[1], asm2, proper)
    ELSE IF l.kind = "Instance" /\ r.kind = "Callable"
         THEN /\ FindMember("__call__", l, FALSE) # <<>>
              /\ Sub(FindMember("__call__", l, FALSE)[1], right, asm2, proper)
    ELSE IF l.kind = "Tuple" /\ r.kind = "Tuple"
         THEN /\ Len(l.items) = Len(r.items)
              /\ \A i \in 1..Len(l.items) : Sub(l.items[i], r.items[i], asm2, proper)
    ELSE IF l.kind = "Tuple" /\ r.kind = "Instance"
         THEN Sub(tuple_fallback(l), right, asm2, proper)
    ELSE IF l.kind = "TypeType" /\ r.kind = "TypeType" THEN Sub(l.item, r.item, asm2, proper)
    ELSE FALSE

IsSubtype(left, right) == Sub(left, right, {}, FALSE)
IsProperSubtype(left, right) == Sub(left, right, {}, TRUE)

\* IsProtocolImplementation(left, right): left defines every member of the
\* protocol right with a compatible type
IsProtocolImplementation(left, right) ==
    /\ left.kind = "Instance" /\ right.kind = "Instance" /\ IsProtocol(right.type)
    /\ ProtoImpl(left, right, {<<left, right>>}, FALSE)

\* is_same_type
is_same_type(a, b) ==
    \/ type_eq(get_proper_type(a), get_proper_type(b))
    \/ get_proper_type(a).kind = "Any" /\ get_proper_type(b).kind = "Any"

\* IsCallableCompatible(item, template, is_compat=is_subtype, ignore_return=True)
IsCallableCompatible(l, r) ==
    \/ l.is_ellipsis_args \/ r.is_ellipsis_args
    \/ /\ Len(l.arg_types) = Len(r.arg_types)
       /\ \A i \in 1..Len(l.arg_types) : IsSubtype(r.arg_types[i], l.arg_types[i])

\* ------------------------------------------------- make_simplified_union
\* flatten_nested_unions: nested union items are spliced in place
RECURSIVE flatten_nested_unions(_)
flatten_nested_unions(items) ==
    IF items = <<>> THEN <<>>
    ELSE IF Head(items).kind = "Union"
         THEN flatten_nested_unions(Head(items).items) \o flatten_nested_unions(Tail(items))
    ELSE <<Head(items)>> \o flatten_nested_unions(Tail(items))

\* _remove_redundant_union_items: drop an item that repeats an earlier item
\* or is a proper subtype of another item; the others keep their order
remove_redundant_union_items(items) ==
    LET keep(i) ==
          /\ \A j \in 1..(i - 1) : ~type_eq(items[j], items[i])
          /\ \A j \in 1..Len(items) :
                (j # i /\ ~type_eq(items[j], items[i]))
                    => ~IsProperSubtype(items[i], items[j])
        kept(e) == keep(e.ix)
        ty(e) == e.ty
    IN [k \in DOMAIN SelectSeq([i \in 1..Len(items) |-> [ix |-> i, ty |-> items[i]]], kept) |->
           SelectSeq([i \in 1..Len(items) |-> [ix |-> i, ty |-> items[i]]], kept)[k].ty]

\* UnionType.make_simplified_union over the items kept
SimplifiedUnionOf(tys) ==
    IF Len(tys) = 0 THEN UninhabitedType
    ELSE IF Len(tys) = 1 THEN get_proper_type(tys[1])
    ELSE UnionType(tys)

MakeSimplifiedUnion(items) ==
    SimplifiedUnionOf(remove_redundant_union_items(flatten_nested_unions(items)))

\* UnionType.make_union: no simplification, a single item stays itself
make_union(items) ==
    IF Len(items) = 0 THEN UninhabitedType
    ELSE IF Len(items) = 1 THEN items[1]
    ELSE UnionType(items)


\* ------------------------------------------------ calls between modules
\* Apply(q) is the call of the function q.f on the arguments held in q: the
\* functions constraints.py imports from the rest of mypy, and the entry
\* points the rest of mypy calls in constraints.py.
RECURSIVE Apply(_)
\* mypy.subtypes
is_subtype(left, right) == Apply([f |-> "is_subtype", left |-> left, right |-> right])
is_proper_subtype(left, right) ==
    Apply([f |-> "is_proper_subtype", left |-> left, right |-> right])
is_protocol_implementation(left, right) ==
    Apply([f |-> "is_protocol_implementation", left |-> left, right |-> right])
is_callable_compatible(left, right) ==
    Apply([f |-> "is_callable_compatible", left |-> left, right |-> right])
find_member(name, itype, class_obj) ==
    Apply([f |-> "find_member", name |-> name, itype |-> itype, class_obj |-> class_obj])
\* mypy.erasetype, mypy.maptype, mypy.typeops
erase_typevars(t) == Apply([f |-> "erase_typevars", t |-> t])
map_instance_to_supertype(instance, superclass) ==
    Apply([f |-> "map_instance_to_supertype", instance |-> instance,
           superclass |-> superclass])
make_simplified_union(items) == Apply([f |-> "make_simplified_union", items |-> items])

\* ------------------------------------------------------------ Constraint
Constraint(type_var, op, target) ==
    [type_var |-> type_var.id, op |-> op, target |-> target, origin_type_var |-> type_var]

\* Constraint.__hash__
Constraint_hash(c) == <<c.type_var, c.op, TypeKey(c.target)>>

\* equality that ignores the direction between two targets that are Any
ConstraintEqAnyDirection(c1, c2) ==
    /\ c1.type_var = c2.type_var
    /\ \/ c1.op = c2.op
       \/ get_proper_type(c1.target).kind = "Any" /\ get_proper_type(c2.target).kind = "Any"
    /\ type_eq(c1.target, c2.target)

\* Constraint.__eq__
Constraint_eq(c1, c2) ==
    /\ c1.type_var = c2.type_var
    /\ c1.op = c2.op
    /\ type_eq(c1.target, c2.target)

\* list == list over constraints (element-wise __eq__)
ConstraintsEq(x, y) ==
    /\ Len(x) = Len(y)
    /\ \A i \in 1..Len(x) : Constraint_eq(x[i], y[i])

\* An option of the combinator: a constraint list, or None (unsatisfiable)
Some(cs) == [some |-> TRUE, cs |-> cs]
NoneOption == [some |-> FALSE, cs |-> <<>>]
OptionEq(x, y) == x.some = y.some /\ ConstraintsEq(x.cs, y.cs)
OptionsEq(xs, ys) ==
    /\ Len(xs) = Len(ys)
    /\ \A i \in 1..Len(xs) : OptionEq(xs[i], ys[i])

neg_op(op) == IF op = SUBTYPE_OF THEN SUPERTYPE_OF ELSE SUBTYPE_OF

\* ------------------------------------------------- ambiguity combinator
is_same_constraint(c1, c2) ==
    LET skip_op_check == /\ get_proper_type(c1.target).kind = "Any"
                         /\ get_proper_type(c2.target).kind = "Any" IN
    /\ c1.type_var = c2.type_var
    /\ (c1.op = c2.op \/ skip_op_check)
    /\ is_same_type(c1.target, c2.target)

\* two lists compared position by position
SameConstraintsInOrder(x, y) ==
    /\ Len(x) = Len(y)
    /\ \A i \in 1..Len(x) : is_same_constraint(x[i], y[i])

is_same_constraints(x, y) ==
    /\ \A i \in 1..Len(x) : \E j \in 1..Len(y) : is_same_constraint(x[i], y[j])
    /\ \A i \in 1..Len(y) : \E j \in 1..Len(x) : is_same_constraint(y[i], x[j])

is_similar_constraints_1(x, y) ==
    \A i \in 1..Len(x) : \E j \in 1..Len(y) :
        LET skip_op_check == \/ get_proper_type(x[i].target).kind = "Any"
                             \/ get_proper_type(y[j].target).kind = "Any" IN
        x[i].type_var = y[j].type_var /\ (x[i].op = y[j].op \/ skip_op_check)

is_similar_constraints(x, y) ==
    is_similar_constraints_1(x, y) /\ is_similar_constraints_1(y, x)

\* the options (never None) whose every constraint is against Any
select_trivial(options) ==
    SelectSeq(options, LAMBDA o :
        o.some /\ \A i \in 1..Len(o.cs) : get_proper_type(o.cs[i].target).kind = "Any")

merge_with_any(constraint) ==
    IF is_union_with_any(constraint.target) THEN constraint
    ELSE Constraint(constraint.origin_type_var, constraint.op,
                    make_union(<<constraint.target, AnyType("implementation_artifact")>>))

\* an option emptied by the filter kept as an empty list
FilterKeepsEmptied(option) ==
    IF ~option.some \/ option.cs = <<>> THEN option
    ELSE Some(SelectSeq(option.cs,
                        LAMBDA c : is_subtype(c.target, c.origin_type_var.upper_bound)))

filter_satisfiable(option) ==
    IF ~option.some \/ option.cs = <<>> THEN option
    ELSE LET satisfiable ==
               SelectSeq(option.cs,
                         LAMBDA c : is_subtype(c.target, c.origin_type_var.upper_bound)) IN
         IF satisfiable = <<>> THEN NoneOption ELSE Some(satisfiable)

\* lines 318-321: None is dropped, and an empty list too when eager
ValidOptions(options, eager) ==
    IF eager THEN SelectSeq(options, LAMBDA o : o.some /\ o.cs # <<>>)
    ELSE SelectSeq(options, LAMBDA o : o.some)

\* lines 339-347: the non-trivial options, merged with Any
MergedOptions(valid_options, trivial_options) ==
    LET kept(o) == ~\E k \in 1..Len(trivial_options) : OptionEq(o, trivial_options[k])
        merged(o) == Some([j \in 1..Len(o.cs) |-> merge_with_any(o.cs[j])])
    IN [i \in DOMAIN SelectSeq(valid_options, kept) |->
           merged(SelectSeq(valid_options, kept)[i])]

\* line 351
FilteredOptions(options) == [i \in 1..Len(options) |-> filter_satisfiable(options[i])]

\* the trivial options merged in whatever the other options are
MergeStepWithoutSimilarity(valid_options, trivial_options) ==
    /\ trivial_options # <<>>
    /\ Len(trivial_options) < Len(valid_options)

\* lines 333 and 339: every option is similar to the first one, and some
\* options but not all are trivial
MergeStep(valid_options, trivial_options) ==
    /\ \A i \in 2..Len(valid_options) :
          is_similar_constraints(valid_options[1].cs, valid_options[i].cs)
    /\ trivial_options # <<>>
    /\ Len(trivial_options) < Len(valid_options)

RECURSIVE any_constraints(_, _)
\* lines 323-359, over the valid, trivial and filtered options
Combine(options, valid_options, trivial_options, filtered_options, eager) ==
    IF valid_options = <<>> THEN <<>>
    ELSE IF Len(valid_options) = 1 THEN valid_options[1].cs
    ELSE IF \A i \in 2..Len(valid_options) :
                is_same_constraints(valid_options[1].cs, valid_options[i].cs)
         THEN valid_options[1].cs
    ELSE IF MergeStep(valid_options, trivial_options)
         THEN any_constraints(MergedOptions(valid_options, trivial_options), eager)
    ELSE IF ~OptionsEq(filtered_options, options)
         THEN any_constraints(filtered_options, eager)
    ELSE <<>>

\* the filtered options tried again whether the filter changed them or not
RetryInputUnchecked(options, valid_options, trivial_options, filtered_options) ==
    IF Len(valid_options) < 2 THEN <<>>
    ELSE IF \A i \in 2..Len(valid_options) :
                is_same_constraints(valid_options[1].cs, valid_options[i].cs)
         THEN <<>>
    ELSE IF MergeStep(valid_options, trivial_options)
         THEN <<MergedOptions(valid_options, trivial_options)>>
    ELSE <<filtered_options>>

\* the options any_constraints calls itself on (line 348 or line 353), as
\* <<options>>, and <<>> when it returns without calling itself
RetryInput(options, valid_options, trivial_options, filtered_options) ==
    IF Len(valid_options) < 2 THEN <<>>
    ELSE IF \A i \in 2..Len(valid_options) :
                is_same_constraints(valid_options[1].cs, valid_options[i].cs)
         THEN <<>>
    ELSE IF MergeStep(valid_options, trivial_options)
         THEN <<MergedOptions(valid_options, trivial_options)>>
    ELSE IF ~OptionsEq(filtered_options, options) THEN <<filtered_options>>
    ELSE <<>>

any_constraints(options, eager) ==
    Combine(options, ValidOptions(options, eager),
            select_trivial(ValidOptions(options, eager)), FilteredOptions(options), eager)

\* one call of any_constraints up to its return or its call of itself: the
\* options it goes on with, and the value it returns when there are none
CallOutcome(retry, options, eager) ==
    [retry |-> retry,
     res |-> IF retry = <<>> THEN any_constraints(options, eager) ELSE <<>>]

AnyConstraintsCall(options, eager) ==
    CallOutcome(RetryInput(options, ValidOptions(options, eager),
                           select_trivial(ValidOptions(options, eager)),
                           FilteredOptions(options)),
                options, eager)

\* incomplete items kept
KeepIncompleteTypes(types) == types

simplify_away_incomplete_types(types) ==
    LET complete == SelectSeq(types, is_complete_type) IN
    IF complete # <<>> THEN complete ELSE types


\* --------------------------------------------------- outcomes and guards
\* g is the context of a call: [inf, pinf, depth]
Ret(res, g) == [res |-> res, st |-> "ok", inf |-> g.inf, pinf |-> g.pinf]
Raise(st, g) == [res |-> <<>>, st |-> st, inf |-> g.inf, pinf |-> g.pinf]
After(o, g) == [inf |-> o.inf, pinf |-> o.pinf, depth |-> g.depth]
\* res.extend(o.res) on a list that already holds prev
Extend(prev, o) == IF o.st # "ok" THEN o ELSE [o EXCEPT !.res = prev \o @]
EmptyGuards == [inf |-> <<>>, pinf |-> [c \in ProtocolClasses |-> <<>>], depth |-> 0]

\* steps a visitor case performs in order: a recursive infer_constraints
\* call whose result is appended, a constraint appended directly, a raise
Call(t, a, d) == [op |-> "call", t |-> t, a |-> a, d |-> d]
Emit(c) == [op |-> "emit", c |-> c]
Throw(st) == [op |-> "raise", st |-> st]
\* return [] at once; return res at once when res is not empty
ReturnEmpty == [op |-> "return_empty"]
ReturnIfRes == [op |-> "return_if_res"]
\* res.extend(f(...)) for a callee f that performs steps of its own
Block(steps) == [op |-> "block", steps |-> steps]
\* type.inferring.append(t) and type.inferring.pop() of a protocol class
PushInferring(c, t) == [op |-> "push", c |-> c, t |-> t]
PopInferring(c) == [op |-> "pop", c |-> c]
\* res.extend(any_constraints([infer_constraints_if_possible(..) ..], eager))
AnyOf(calls, eager) == [op |-> "any", calls |-> calls, eager |-> eager]
EmitAll(cs) == [i \in 1..Len(cs) |-> Emit(cs[i])]

\* CallableType.param_spec(): <<>> or <<the ParamSpec with its prefix>>
param_spec(c) ==
    LET n == Len(c.arg_types) IN
    IF n < 2 THEN <<>>
    ELSE IF c.arg_kinds[n - 1] # "STAR" \/ c.arg_kinds[n] # "STAR2" THEN <<>>
    ELSE IF c.arg_types[n - 1].kind # "ParamSpec" THEN <<>>
    ELSE <<[c.arg_types[n - 1] EXCEPT
              !.prefix = Parameters(SubSeq(c.arg_types, 1, n - 2),
                                    SubSeq(c.arg_kinds, 1, n - 2))]>>

\* CallableType.with_unpacked_kwargs(): no callable of the program takes
\* **kwargs: Unpack[TypedDict], which is the only form it rewrites
with_unpacked_kwargs(c) == c

\* TypeInfo.has_type_var_tuple_type, type_var_tuple_prefix / _suffix
has_type_var_tuple_type(c) ==
    \E i \in 1..Len(ClassTypeVars(c)) : ClassTypeVars(c)[i].kind = "TypeVarTuple"
type_var_tuple_prefix(c) ==
    CHOOSE i \in 0..(Len(ClassTypeVars(c)) - 1) : ClassTypeVars(c)[i + 1].kind = "TypeVarTuple"
type_var_tuple_suffix(c) == Len(ClassTypeVars(c)) - type_var_tuple_prefix(c) - 1

\* split_with_prefix_and_suffix(types, prefix, suffix)
split_with_prefix_and_suffix(types, prefix, suffix) ==
    [prefix |-> Slice(types, 1, prefix),
     middle |-> Slice(types, prefix + 1, Len(types) - suffix),
     suffix |-> IF suffix = 0 THEN <<>>
                ELSE Slice(types, IF Len(types) - suffix + 1 < 1 THEN 1
                                  ELSE Len(types) - suffix + 1, Len(types))]
split_with_instance(typ) ==
    split_with_prefix_and_suffix(typ.args, type_var_tuple_prefix(typ.type),
                                 type_var_tuple_suffix(typ.type))

\* extract_unpack: the unpacked type when the list is one Unpack item
extract_unpack(types) ==
    IF Len(types) = 1 /\ get_proper_type(types[1]).kind = "Unpack"
    THEN <<get_proper_type(get_proper_type(types[1]).type)>>
    ELSE <<>>

\* find_unpack_in_list: index of the Unpack item, 0 if there is none
find_unpack_in_list(items) ==
    IF \E i \in 1..Len(items) : get_proper_type(items[i]).kind = "Unpack"
    THEN CHOOSE i \in 1..Len(items) : get_proper_type(items[i]).kind = "Unpack"
    ELSE 0

IsNamedTuple(c) == c \in {"Point"}
TUPLE_LIKE_INSTANCE_NAMES == {"tuple"}

\* the declared-first item whatever the template
FirstOverloadItem(overloaded, template) == overloaded.items[1]

find_matching_overload_item(overloaded, template) ==
    LET items == overloaded.items IN
    IF \E i \in 1..Len(items) : is_callable_compatible(items[i], template)
    THEN items[CHOOSE i \in 1..Len(items) :
                  /\ is_callable_compatible(items[i], template)
                  /\ \A j \in 1..(i - 1) : ~is_callable_compatible(items[j], template)]
    ELSE items[1]

find_matching_overload_items(overloaded, template) ==
    LET res == SelectSeq(overloaded.items, LAMBDA it : is_callable_compatible(it, template)) IN
    IF res = <<>> THEN overloaded.items ELSE res


\* ------------------------------------------- steps of the visitor cases
\* a type parameter matched in both directions whatever its variance
ArgStepsBothDirections(tvar, template_arg, other_arg, direction, subtype_branch) ==
    <<Call(template_arg, other_arg, direction),
      Call(template_arg, other_arg, neg_op(direction))>>

\* one type parameter of a nominal match (visit_instance, both branches)
ArgSteps(tvar, template_arg, other_arg, direction, subtype_branch) ==
    LET suffix == get_proper_type(other_arg)
        prefix == template_arg.prefix
        with_concat ==
            IF suffix.kind = "Callable"
            THEN [suffix EXCEPT !.from_concatenate = (prefix.arg_types # <<>>) \/ @]
            ELSE suffix
        cut == [with_concat EXCEPT
                  !.arg_types = Slice(@, Len(prefix.arg_types) + 1, Len(@)),
                  !.arg_kinds = Slice(@, Len(prefix.arg_kinds) + 1, Len(@))]
    IN
    IF tvar.kind = "TypeVarTuple" /\ ~subtype_branch THEN <<Throw("fatal")>>
    ELSE IF tvar.kind = "TypeVar"
    THEN (IF tvar.variance # "contravariant"
          THEN <<Call(template_arg, other_arg, direction)>> ELSE <<>>)
         \o (IF tvar.variance # "covariant"
             THEN <<Call(template_arg, other_arg, neg_op(direction))>> ELSE <<>>)
    ELSE IF tvar.kind = "ParamSpec" /\ template_arg.kind = "ParamSpec"
    THEN IF suffix.kind \in {"Parameters", "Callable"}
         THEN <<Emit(Constraint(template_arg, SUPERTYPE_OF, cut))>>
         ELSE IF suffix.kind = "ParamSpec"
         THEN <<Emit(Constraint(template_arg, SUPERTYPE_OF, suffix))>>
         ELSE <<>>
    ELSE IF tvar.kind = "TypeVarTuple" THEN <<Throw("notimpl")>>
    ELSE <<>>

\* the two sides of each pair exchanged
ZipArgStepsSwapped(tvars, template_args, other_args, direction, subtype_branch) ==
    LET n == Min(Len(tvars), Min(Len(template_args), Len(other_args))) IN
    Flatten([i \in 1..n |->
        ArgSteps(tvars[i], other_args[i], template_args[i], direction, subtype_branch)])

\* zip(tvars, template-side args, other-side args)
ZipArgSteps(tvars, template_args, other_args, direction, subtype_branch) ==
    LET n == Min(Len(tvars), Min(Len(template_args), Len(other_args))) IN
    Flatten([i \in 1..n |->
        ArgSteps(tvars[i], template_args[i], other_args[i], direction, subtype_branch)])

\* direction == SUBTYPE_OF and template.type.has_base(instance.type.fullname)
NominalSubtypeSteps(template, instance, direction) ==
    LET mapped == map_instance_to_supertype(template, instance.type) IN
    ZipArgSteps(ClassTypeVars(mapped.type), mapped.args, instance.args, direction, TRUE)

\* direction == SUPERTYPE_OF and instance.type.has_base(template.type.fullname)
NominalSupertypeSteps(template, instance, direction) ==
    LET mapped == map_instance_to_supertype(instance, template.type)
        tvars == ClassTypeVars(template.type)
        ms == split_with_instance(mapped)
        ts == split_with_instance(template)
        template_unpack == extract_unpack(ts.middle)
        unpack_steps ==
            IF template_unpack = <<>> THEN <<>>
            ELSE IF template_unpack[1].kind = "TypeVarTuple"
            THEN <<Emit(Constraint(template_unpack[1], SUPERTYPE_OF, TypeList(ms.middle)))>>
            ELSE IF template_unpack[1].kind = "Instance" /\ template_unpack[1].type = "tuple"
            THEN [i \in 1..Len(ms.middle) |->
                     Call(template_unpack[1].args[1], ms.middle[i], direction)]
            ELSE IF /\ template_unpack[1].kind = "Tuple"
                    /\ Len(template_unpack[1].items) = Len(ms.middle)
            THEN [i \in 1..Len(ms.middle) |->
                     Call(template_unpack[1].items[i], ms.middle[i], direction)]
            ELSE <<>>
        tv == split_with_prefix_and_suffix(tvars, type_var_tuple_prefix(template.type),
                                           type_var_tuple_suffix(template.type))
    IN
    IF has_type_var_tuple_type(template.type)
    THEN unpack_steps \o ZipArgSteps(tv.prefix \o tv.suffix, ts.prefix \o ts.suffix,
                                     ms.prefix \o ms.suffix, direction, FALSE)
    ELSE ZipArgSteps(tvars, template.args, mapped.args, direction, FALSE)

\* a member that is not found is passed over
ProtocolMemberStepsPartial(instance, template, protocol, class_obj, direction) ==
    LET members == ProtocolMembers(protocol.type)
        inst(i) == find_member(members[i], instance, class_obj)
        temp(i) == find_member(members[i], template, FALSE)
        one(i) ==
            IF inst(i) = <<>> \/ temp(i) = <<>> THEN <<>>
            ELSE <<Call(temp(i)[1], inst(i)[1], direction)>>
                 \o (IF IsSettable(members[i], protocol.type)
                     THEN <<Call(temp(i)[1], inst(i)[1], neg_op(direction))>> ELSE <<>>)
    IN Flatten([i \in 1..Len(members) |-> one(i)])

\* infer_constraints_from_protocol_members: per member the constraints in
\* the given direction, then the opposite ones when the member is settable;
\* a failed lookup returns [] for the whole attempt
ProtocolMemberSteps(instance, template, protocol, class_obj, direction) ==
    LET members == ProtocolMembers(protocol.type)
        inst(i) == find_member(members[i], instance, class_obj)
        temp(i) == find_member(members[i], template, FALSE)
        one(i) ==
            IF inst(i) = <<>> \/ temp(i) = <<>> THEN <<ReturnEmpty>>
            ELSE <<Call(temp(i)[1], inst(i)[1], direction)>>
                 \o (IF IsSettable(members[i], protocol.type)
                     THEN <<Call(temp(i)[1], inst(i)[1], neg_op(direction))>> ELSE <<>>)
    IN Flatten([i \in 1..Len(members) |-> one(i)])

\* infer_against_any: every type against the Any, in the request's direction
AgainstAnySteps(types, any_type, direction) ==
    [i \in 1..Len(types) |-> Call(types[i], any_type, direction)]

\* ---------------------------------------------------- the shape matcher
\* Every visit_ method gives the steps it performs, in order; RunSteps below
\* performs them.  g is the context the method is entered with.

\* lines 529-542: the generic callback protocol
\* the call signature matched in the opposite direction
CallbackProtocolStepsNegated(template, call, actual, direction) ==
    <<PushInferring(template.type, template)>>
    \o (IF is_subtype(actual, erase_typevars(call))
        THEN <<Call(call, actual, neg_op(direction))>> ELSE <<>>)
    \o <<PopInferring(template.type)>>

CallbackProtocolSteps(template, call, actual, direction) ==
    <<PushInferring(template.type, template)>>
    \o (IF is_subtype(actual, erase_typevars(call))
        THEN <<Call(call, actual, direction)>> ELSE <<>>)
    \o <<PopInferring(template.type)>>

\* lines 543-569: the members of a class object against a protocol template
ClassObjectSteps(template, original_actual, ret_type, direction) ==
    IF /\ original_actual.kind = "Callable"
       /\ original_actual.is_type_obj /\ IsProtocol(template.type)
       /\ ret_type.kind = "Instance"
    THEN <<Block(ProtocolMemberSteps(ret_type, template, template, TRUE, direction))>>
    ELSE IF /\ original_actual.kind = "TypeType" /\ IsProtocol(template.type)
            /\ original_actual.item.kind = "Instance"
    THEN <<Block(ProtocolMemberSteps(original_actual.item, template, template,
                                     TRUE, direction))>>
    ELSE <<>>

\* the fallbacks with a TypeVarTuple actual left to the last branch
FallbackStepsSilent(template, actual, direction) ==
    IF actual.kind = "Any" THEN AgainstAnySteps(template.args, actual, direction)
    ELSE IF /\ actual.kind = "Tuple" /\ template.type \in TUPLE_LIKE_INSTANCE_NAMES
            /\ direction = SUPERTYPE_OF
    THEN [i \in 1..Len(actual.items) |-> Call(template.args[1], actual.items[i], SUPERTYPE_OF)]
    ELSE IF actual.kind = "Tuple" /\ direction = SUPERTYPE_OF
    THEN <<Call(template, tuple_fallback(actual), direction)>>
    ELSE IF actual.kind = "TypeVar"
    THEN IF actual.values = <<>>
         THEN <<Call(template, actual.upper_bound, direction)>>
         ELSE <<>>
    ELSE IF actual.kind = "ParamSpec"
    THEN <<Call(template, actual.upper_bound, direction)>>
    ELSE <<>>

\* lines 756-778: the fallbacks
FallbackSteps(template, actual, direction) ==
    IF actual.kind = "Any" THEN AgainstAnySteps(template.args, actual, direction)
    ELSE IF /\ actual.kind = "Tuple" /\ template.type \in TUPLE_LIKE_INSTANCE_NAMES
            /\ direction = SUPERTYPE_OF
    THEN [i \in 1..Len(actual.items) |-> Call(template.args[1], actual.items[i], SUPERTYPE_OF)]
    ELSE IF actual.kind = "Tuple" /\ direction = SUPERTYPE_OF
    THEN <<Call(template, tuple_fallback(actual), direction)>>
    ELSE IF actual.kind = "TypeVar"
    THEN IF actual.values = <<>>
         THEN <<Call(template, actual.upper_bound, direction)>>
         ELSE <<>>
    ELSE IF actual.kind = "ParamSpec"
    THEN <<Call(template, actual.upper_bound, direction)>>
    ELSE IF actual.kind = "TypeVarTuple" THEN <<Throw("notimpl")>>
    ELSE <<>>

\* lines 577-778, actual unwrapped to instance, erased = erase_typevars(template)
InstanceSteps(template, instance, erased, direction, g) ==
    LET on_guard(t) == \E i \in 1..Len(g.pinf[t.type]) : type_eq(g.pinf[t.type][i], t) IN
    IF instance.kind = "Instance"
            /\ direction = SUBTYPE_OF /\ has_base(template.type, instance.type)
    THEN NominalSubtypeSteps(template, instance, direction)
    ELSE IF instance.kind = "Instance"
            /\ direction = SUPERTYPE_OF /\ has_base(instance.type, template.type)
    THEN NominalSupertypeSteps(template, instance, direction)
    ELSE IF /\ instance.kind = "Instance"
            /\ IsProtocol(template.type) /\ direction = SUPERTYPE_OF
            /\ ~on_guard(template)
            /\ is_protocol_implementation(instance, erased)
    THEN <<PushInferring(template.type, template),
           Block(ProtocolMemberSteps(instance, template, template, FALSE, direction)),
           PopInferring(template.type)>>
    ELSE IF /\ instance.kind = "Instance"
            /\ IsProtocol(instance.type) /\ direction = SUBTYPE_OF
            /\ ~on_guard(instance)
            /\ is_protocol_implementation(erased, instance)
    THEN <<PushInferring(instance.type, instance),
           Block(ProtocolMemberSteps(instance, template, instance, FALSE, direction)),
           PopInferring(instance.type)>>
    ELSE <<ReturnIfRes>> \o FallbackSteps(template, instance, direction)

\* lines 545-547
ClassObjectType(ret_type) ==
    IF ret_type.kind = "Tuple" THEN tuple_fallback(ret_type) ELSE ret_type

\* lines 558, 571-576: actual unwrapped to the class instance behind it
Unwrapped(actual) ==
    IF actual.kind \in {"Callable", "Overloaded", "TypedDict", "Literal"}
    THEN actual.fallback ELSE actual

visit_instance(template, actual, direction, g) ==
    IF /\ actual.kind \in {"Callable", "Overloaded"}
       /\ IsProtocol(template.type)
       /\ ProtocolMembers(template.type) = <<"__call__">>
       /\ ~\E i \in 1..Len(g.pinf[template.type]) : type_eq(template, g.pinf[template.type][i])
    THEN CallbackProtocolSteps(template, find_member("__call__", template, FALSE)[1],
                               actual, direction)
    ELSE ClassObjectSteps(template, actual,
                          IF actual.kind = "Callable"
                          THEN ClassObjectType(get_proper_type(actual.ret_type))
                          ELSE actual, direction)
         \o InstanceSteps(template, Unwrapped(actual), erase_typevars(template), direction, g)

\* the parameters matched in the direction of the request
CallableArgStepsSameDirection(template, cactual, direction) ==
    [i \in 1..Min(Len(template.arg_types), Len(cactual.arg_types)) |->
        Call(template.arg_types[i], cactual.arg_types[i], direction)]

\* lines 825-827: zip(template.arg_types, cactual.arg_types), direction negated
CallableArgSteps(template, cactual, direction) ==
    [i \in 1..Min(Len(template.arg_types), Len(cactual.arg_types)) |->
        Call(template.arg_types[i], cactual.arg_types[i], neg_op(direction))]

\* lines 828-864: the template ends in a parameter specification
ParamSpecSteps(ps, prefix_len, cactual, cactual_ps, direction) ==
    (IF cactual_ps = <<>>
     THEN <<Emit(Constraint(ps, SUBTYPE_OF,
                [cactual EXCEPT
                   !.arg_types = Slice(@, prefix_len + 1, Len(@)),
                   !.arg_kinds = Slice(@, prefix_len + 1, Len(@)),
                   !.ret_type = NoneType]))>>
     ELSE <<Emit(Constraint(ps, SUBTYPE_OF, cactual_ps[1]))>>)
    \o [i \in 1..Min(Len(ps.prefix.arg_types), Min(prefix_len, Len(cactual.arg_types))) |->
           Call(ps.prefix.arg_types[i], cactual.arg_types[i], neg_op(direction))]

\* lines 833-838
PrefixLen(ps, cactual, cactual_ps) ==
    IF cactual_ps = <<>>
    THEN Min(Len(ps.prefix.arg_types),
             Len(SelectSeq(cactual.arg_kinds, LAMBDA k : k \in {"POS", "OPT"})))
    ELSE Len(ps.prefix.arg_types)

\* lines 866-872: a declared type guard stands for the return type
ReturnSteps(template, cactual, direction) ==
    <<Call(IF template.type_guard # <<>> THEN template.type_guard[1] ELSE template.ret_type,
           IF cactual.type_guard # <<>> THEN cactual.type_guard[1] ELSE cactual.ret_type,
           direction)>>

\* lines 813-873: actual is a callable
CallableCallableSteps(template, cactual, ps, direction) ==
    (IF ps = <<>>
     THEN IF ~template.is_ellipsis_args
          THEN CallableArgSteps(template, cactual, direction)
          ELSE <<>>
     ELSE ParamSpecSteps(ps[1], PrefixLen(ps[1], cactual, param_spec(cactual)), cactual,
                         param_spec(cactual), direction))
    \o ReturnSteps(template, cactual, direction)

\* lines 874-889: actual is Any
CallableAnySteps(template, actual, ps, any_type, direction) ==
    (IF ps = <<>> THEN AgainstAnySteps(template.arg_types, actual, direction)
     ELSE <<Emit(Constraint(ps[1], SUBTYPE_OF,
               [CallableType(<<any_type, any_type>>, <<"STAR", "STAR2">>, any_type)
                  EXCEPT !.is_ellipsis_args = TRUE]))>>)
    \o <<Call(template.ret_type, any_type, direction)>>

\* lines 897-903: actual is an instance, perhaps with __call__
CallableInstanceSteps(template, call, direction) ==
    IF call # <<>> THEN <<Call(template, call[1], direction)>> ELSE <<>>

\* infer_against_overloaded
infer_against_overloaded(overloaded, template, direction) ==
    <<Call(template, find_matching_overload_item(overloaded, template), direction)>>

visit_callable_type(template, actual, direction) ==
    IF actual.kind = "Callable"
    THEN CallableCallableSteps(with_unpacked_kwargs(template), with_unpacked_kwargs(actual),
                               param_spec(with_unpacked_kwargs(template)), direction)
    ELSE IF actual.kind = "Any"
    THEN CallableAnySteps(with_unpacked_kwargs(template), actual,
                          param_spec(with_unpacked_kwargs(template)),
                          AnyType("from_another_any"), direction)
    ELSE IF actual.kind = "Overloaded"
    THEN infer_against_overloaded(actual, with_unpacked_kwargs(template), direction)
    ELSE IF actual.kind = "TypeType"
    THEN <<Call(template.ret_type, actual.item, direction)>>
    ELSE IF actual.kind = "Instance"
    THEN CallableInstanceSteps(with_unpacked_kwargs(template),
                               find_member("__call__", actual, FALSE), direction)
    ELSE <<>>

\* lines 923-955: the template holds an unpacked item at unpack_index
TupleUnpackSteps(template, actual, unpack_index, unpacked_type, direction) ==
    LET is_varlength_tuple == actual.kind = "Instance" /\ actual.type = "tuple" IN
    IF unpack_index # 0 /\ unpacked_type.kind = "TypeVarTuple"
       /\ is_varlength_tuple /\ Len(template.items) # 1
    THEN <<Throw("fatal")>>
    ELSE IF unpack_index # 0 /\ unpacked_type.kind = "TypeVarTuple"
            /\ (actual.kind \in {"Tuple", "Any"} \/ is_varlength_tuple)
    THEN <<Emit(Constraint(unpacked_type, direction,
                  IF actual.kind = "Tuple"
                  THEN [actual EXCEPT !.items =
                          split_with_prefix_and_suffix(actual.items, unpack_index - 1,
                              Len(template.items) - unpack_index).middle]
                  ELSE actual))>>
    ELSE <<>>

\* the items matched pairwise as far as the shorter tuple goes
ZipTupleItems(template, actual, direction) ==
    IF actual.kind = "Tuple"
    THEN [i \in 1..Min(Len(template.items), Len(actual.items)) |->
             Call(template.items[i], actual.items[i], direction)]
    ELSE <<>>

visit_tuple_type(template, actual, direction) ==
    LET unpack_index == find_unpack_in_list(template.items)
        unpack_steps ==
            IF unpack_index = 0 THEN <<>>
            ELSE TupleUnpackSteps(template, actual, unpack_index,
                     get_proper_type(get_proper_type(template.items[unpack_index]).type),
                     direction)
    IN
    IF unpack_steps # <<>> THEN unpack_steps
    ELSE IF actual.kind = "Tuple" /\ Len(actual.items) = Len(template.items)
    THEN IF /\ IsNamedTuple(actual.partial_fallback.type)
            /\ IsNamedTuple(template.partial_fallback.type)
         THEN <<Call(template.partial_fallback, actual.partial_fallback, direction)>>
         ELSE [i \in 1..Len(template.items) |->
                  Call(template.items[i], actual.items[i], direction)]
    ELSE IF actual.kind = "Any"
    THEN AgainstAnySteps(template.items, actual, direction)
    ELSE <<>>

visit_typeddict_type(template, actual, direction) ==
    LET shared(it) == \E j \in 1..Len(actual.items) : actual.items[j].name = it.name
        other(name) == actual.items[CHOOSE j \in 1..Len(actual.items) :
                                       actual.items[j].name = name].type
        one(it) == Call(it.type, other(it.name), direction)
    IN
    IF actual.kind = "TypedDict"
    THEN [i \in DOMAIN SelectSeq(template.items, shared) |->
             one(SelectSeq(template.items, shared)[i])]
    ELSE IF actual.kind = "Any"
    THEN AgainstAnySteps([i \in 1..Len(template.items) |-> template.items[i].type],
                         actual, direction)
    ELSE <<>>

\* the template's items against actual
OverloadedSteps(items, actual, direction) ==
    [i \in 1..Len(items) |-> Call(items[i], actual, direction)]

visit_overloaded(template, actual, direction) ==
    OverloadedSteps(IF actual.kind = "Callable"
                    THEN find_matching_overload_items(template, actual)
                    ELSE template.items, actual, direction)

visit_type_type(template, actual, direction) ==
    IF actual.kind = "Callable"
    THEN <<Call(template.item, actual.ret_type, direction)>>
    ELSE IF actual.kind = "Overloaded"
    THEN <<Call(template.item, actual.items[1].ret_type, direction)>>
    ELSE IF actual.kind = "TypeType"
    THEN <<Call(template.item, actual.item, direction)>>
    ELSE IF actual.kind = "Any"
    THEN <<Call(template.item, actual, direction)>>
    ELSE <<>>

\* a parameter list constrained to whatever the actual is
ParametersAgainstAnything(template, actual, direction) ==
    AgainstAnySteps(template.arg_types, actual, direction)

visit_parameters(template, actual, direction) ==
    IF actual.kind = "Any"
    THEN AgainstAnySteps(template.arg_types, actual, direction)
    ELSE <<Throw("fatal")>>

\* template.accept(ConstraintBuilderVisitor(actual, direction))
accept(template, actual, direction, g) ==
    CASE template.kind \in {"Unbound", "Any", "None", "Uninhabited", "Erased",
                            "Deleted", "Literal"} -> <<>>
      [] template.kind \in {"Partial", "TypeVar", "Union", "Alias"} -> <<Throw("fatal")>>
      [] template.kind = "ParamSpec" -> <<>>
      [] template.kind \in {"TypeVarTuple", "Unpack"} -> <<Throw("notimpl")>>
      [] template.kind = "Parameters" -> visit_parameters(template, actual, direction)
      [] template.kind = "Instance" -> visit_instance(template, actual, direction, g)
      [] template.kind = "Callable" -> visit_callable_type(template, actual, direction)
      [] template.kind = "Tuple" -> visit_tuple_type(template, actual, direction)
      [] template.kind = "TypedDict" -> visit_typeddict_type(template, actual, direction)
      [] template.kind = "Overloaded" -> visit_overloaded(template, actual, direction)
      [] template.kind = "TypeType" -> visit_type_type(template, actual, direction)

\* ------------------------------------------------------ the dispatcher
\* lines 169-178: the proper type, a union reduced to a simplified union
normalized(t) ==
    IF get_proper_type(t).kind = "Union"
    THEN make_simplified_union(get_proper_type(t).items)
    ELSE get_proper_type(t)

\* the base case with the direction turned around
BaseCaseNegated(template, direction, actual) ==
    <<Constraint(template, neg_op(direction), actual)>>

\* line 195: the constraint of a bare type variable
BaseCase(template, direction, actual) == <<Constraint(template, direction, actual)>>

\* the items of a union template taken last to first
UnionTemplateStepsReversed(template, actual, direction) ==
    [i \in 1..Len(template.items) |->
        Call(template.items[Len(template.items) + 1 - i], actual, direction)]

\* lines 200-204: every item of a union template against actual
UnionTemplateSteps(template, actual, direction) ==
    [i \in 1..Len(template.items) |-> Call(template.items[i], actual, direction)]

\* lines 205-209: the template against every item of a union actual
UnionActualSteps(orig_template, actual, direction) ==
    [i \in 1..Len(actual.items) |-> Call(orig_template, actual.items[i], direction)]

\* lines 215-224: the template against some complete item of a union actual
UnionActualOptions(template, items, direction) ==
    <<AnyOf([i \in 1..Len(items) |-> Call(template, items[i], direction)], TRUE)>>

\* the type variable items tried before the other items
VariablesFirst(template, actual, direction) ==
    <<Call(make_union(SelectSeq(template.items, LAMBDA t : t.kind = "TypeVar")),
           actual, direction),
      ReturnIfRes,
      Call(make_union(SelectSeq(template.items, LAMBDA t : t.kind # "TypeVar")),
           actual, direction)>>

handle_recursive_union(template, actual, direction) ==
    <<Call(make_union(SelectSeq(template.items, LAMBDA t : t.kind # "TypeVar")),
           actual, direction),
      ReturnIfRes,
      Call(make_union(SelectSeq(template.items, LAMBDA t : t.kind = "TypeVar")),
           actual, direction)>>

\* lines 225-240: some item of a union template against actual
UnionTemplateOptions(template, actual, direction) ==
    <<AnyOf([i \in 1..Len(template.items) |-> Call(template.items[i], actual, direction)],
            FALSE),
      ReturnIfRes>>
    \o (IF has_recursive_types(template) /\ ~has_recursive_types(actual)
        THEN handle_recursive_union(template, actual, direction)
        ELSE <<>>)

\* the type variable base case taken before the test for an Any of the
\* suggestion engine
DispatchBaseCaseFirst(orig_template, template, actual, direction, g) ==
    IF template.kind = "TypeVar" THEN EmitAll(BaseCase(template, direction, actual))
    ELSE IF actual.kind = "Any" /\ actual.type_of_any = "suggestion_engine" THEN <<>>
    ELSE IF direction = SUBTYPE_OF /\ template.kind = "Union"
    THEN UnionTemplateSteps(template, actual, direction)
    ELSE IF direction = SUPERTYPE_OF /\ actual.kind = "Union"
    THEN UnionActualSteps(orig_template, actual, direction)
    ELSE IF direction = SUBTYPE_OF /\ actual.kind = "Union"
    THEN UnionActualOptions(template, simplify_away_incomplete_types(actual.items), direction)
    ELSE IF direction = SUPERTYPE_OF /\ template.kind = "Union"
    THEN UnionTemplateOptions(template, actual, direction)
    ELSE accept(template, actual, direction, g)

\* lines 180-243 of _infer_constraints, over the normalized template and actual
Dispatch(orig_template, template, actual, direction, g) ==
    IF actual.kind = "Any" /\ actual.type_of_any = "suggestion_engine" THEN <<>>
    ELSE IF template.kind = "TypeVar" THEN EmitAll(BaseCase(template, direction, actual))
    ELSE IF direction = SUBTYPE_OF /\ template.kind = "Union"
    THEN UnionTemplateSteps(template, actual, direction)
    ELSE IF direction = SUPERTYPE_OF /\ actual.kind = "Union"
    THEN UnionActualSteps(orig_template, actual, direction)
    ELSE IF direction = SUBTYPE_OF /\ actual.kind = "Union"
    THEN UnionActualOptions(template, simplify_away_incomplete_types(actual.items), direction)
    ELSE IF direction = SUPERTYPE_OF /\ template.kind = "Union"
    THEN UnionTemplateOptions(template, actual, direction)
    ELSE accept(template, actual, direction, g)

RECURSIVE infer_constraints(_, _, _, _)
RECURSIVE RunSteps(_, _, _)
RECURSIVE InferOptions(_, _, _)

\* the call o has ended: its exception leaves, its result extends res
Then(rest, acc, g, o) ==
    IF o.st # "ok" THEN o
    ELSE RunSteps(rest, acc \o o.res, After(o, g))

\* infer_constraints_if_possible: None when the relation cannot hold
AsOption(o) == [opt |-> Some(o.res), st |-> o.st, inf |-> o.inf, pinf |-> o.pinf]
infer_constraints_if_possible(template, actual, direction, g) ==
    IF \/ direction = SUBTYPE_OF /\ ~is_subtype(erase_typevars(template), actual)
       \/ direction = SUPERTYPE_OF /\ ~is_subtype(actual, erase_typevars(template))
       \/ /\ direction = SUPERTYPE_OF
          /\ template.kind = "TypeVar"
          /\ ~is_subtype(actual, erase_typevars(template.upper_bound))
    THEN [opt |-> NoneOption, st |-> "ok", inf |-> g.inf, pinf |-> g.pinf]
    ELSE AsOption(infer_constraints(template, actual, direction, g))

\* the list comprehension of infer_constraints_if_possible calls
NextOption(rest, opts, g, o) ==
    IF o.st # "ok" THEN [opts |-> opts, st |-> o.st, inf |-> o.inf, pinf |-> o.pinf]
    ELSE InferOptions(rest, Append(opts, o.opt), After(o, g))
InferOptions(calls, opts, g) ==
    IF calls = <<>> THEN [opts |-> opts, st |-> "ok", inf |-> g.inf, pinf |-> g.pinf]
    ELSE NextOption(Tail(calls), opts, g,
                    infer_constraints_if_possible(Head(calls).t, Head(calls).a,
                                                  Head(calls).d, g))

\* any_constraints over the options inferred
FromOptions(os, eager) ==
    IF os.st # "ok" THEN Raise(os.st, os)
    ELSE Ret(any_constraints(os.opts, eager), os)

\* perform steps in order, extending acc; an exception leaves at once
RunStep(s, rest, acc, g) ==
    CASE s.op = "emit" -> RunSteps(rest, Append(acc, s.c), g)
      [] s.op = "raise" -> Raise(s.st, g)
      [] s.op = "return_empty" -> Ret(<<>>, g)
      [] s.op = "return_if_res" -> IF acc # <<>> THEN Ret(acc, g) ELSE RunSteps(rest, acc, g)
      [] s.op = "push" -> RunSteps(rest, acc, [g EXCEPT !.pinf[s.c] = Append(@, s.t)])
      [] s.op = "pop" ->
            RunSteps(rest, acc, [g EXCEPT !.pinf[s.c] = SubSeq(@, 1, Len(@) - 1)])
      [] s.op \in {"call", "block", "any"} ->
            Then(rest, acc, g,
                 CASE s.op = "call" -> infer_constraints(s.t, s.a, s.d, g)
                   [] s.op = "block" -> RunSteps(s.steps, <<>>, g)
                   [] s.op = "any" -> FromOptions(InferOptions(s.calls, <<>>, g), s.eager))
RunSteps(steps, acc, g) ==
    IF steps = <<>> THEN Ret(acc, g)
    ELSE RunStep(Head(steps), Tail(steps), acc, g)

\* _infer_constraints
infer_constraints_inner(template, actual, direction, g) ==
    RunSteps(Dispatch(template, normalized(template), normalized(actual), direction, g),
             <<>>, g)

\* a guard test that finds no pair
NeverOnGuard(template, actual, inferring) == FALSE

\* the guard test of infer_constraints: the pair is under comparison already
OnGuard(template, actual, inferring) ==
    \E i \in 1..Len(inferring) :
        /\ type_eq(get_proper_type(template), get_proper_type(inferring[i][1]))
        /\ type_eq(get_proper_type(actual), get_proper_type(inferring[i][2]))

\* TypeState.inferring.append((template, actual)) for a recursive template
PushPair(template, actual, g) ==
    IF has_recursive_types(template)
    THEN [g EXCEPT !.inf = Append(@, <<template, actual>>), !.depth = @ + 1]
    ELSE [g EXCEPT !.depth = @ + 1]

\* TypeState.inferring.pop() after _infer_constraints returned
PopPair(template, res) ==
    IF res.st # "ok" \/ ~has_recursive_types(template) THEN res
    ELSE [res EXCEPT !.inf = SubSeq(@, 1, Len(@) - 1)]

infer_constraints(template, actual, direction, g) ==
    IF g.depth >= MaxDepth THEN Raise("overflow", g)
    ELSE IF OnGuard(template, actual, g.inf) THEN Ret(<<>>, g)
    ELSE IF has_recursive_types(template) /\ ~has_type_vars(template) THEN Ret(<<>>, g)
    ELSE PopPair(template,
                 infer_constraints_inner(template, actual, direction,
                                         PushPair(template, actual, g)))

\* infer_constraints_from_protocol_members: every member of the protocol,
\* in order; a failed lookup returns the empty list
infer_constraints_from_protocol_members(instance, template, protocol, class_obj, direction, g) ==
    RunSteps(ProtocolMemberSteps(instance, template, protocol, class_obj, direction), <<>>, g)

\* ArgTypeExpander.expand_actual_type(actual_type, actual_kind, ...): the
\* type a formal receives from the argument, and the expander's tuple_index
\* after the call. A *args tuple gives its items one by one, a *args
\* List[X] or Tuple[X, ...] gives X, any other argument is passed as it is.
expand_actual_type(actual_type, actual_kind, tuple_index) ==
    LET t == get_proper_type(actual_type)
        next == IF tuple_index >= Len(t.items) THEN 1 ELSE tuple_index + 1
    IN
    IF actual_kind # "STAR" THEN [type |-> actual_type, tuple_index |-> tuple_index]
    ELSE IF t.kind = "Instance" /\ t.args # <<>>
    THEN [type |-> IF t.type \in {"List", "tuple"} THEN t.args[1] ELSE AnyType("from_error"),
          tuple_index |-> tuple_index]
    ELSE IF t.kind = "Tuple"
    THEN [type |-> t.items[next], tuple_index |-> next]
    ELSE [type |-> AnyType("from_error"), tuple_index |-> tuple_index]

\* for i, actuals in enumerate(formal_to_actual): for actual in actuals
FormalActualPairs(formal_to_actual) ==
    Flatten([i \in 1..Len(formal_to_actual) |->
        [j \in 1..Len(formal_to_actual[i]) |-> <<i, formal_to_actual[i][j]>>]])

\* the formal matched below the type of the argument
ArgumentStepSubtype(formal_type, actual_type) ==
    <<Call(formal_type, actual_type, SUBTYPE_OF)>>

\* c = infer_constraints(callee.arg_types[i], actual_type, SUPERTYPE_OF)
ArgumentStep(formal_type, actual_type) ==
    <<Call(formal_type, actual_type, SUPERTYPE_OF)>>

\* the loop over the pairs; an argument whose type is None is passed over
RECURSIVE ArgumentSteps(_, _, _, _, _)
ArgumentSteps(callee, arg_types, arg_kinds, pairs, tuple_index) ==
    IF pairs = <<>> THEN <<>>
    ELSE IF arg_types[Head(pairs)[2]] = <<>>
    THEN ArgumentSteps(callee, arg_types, arg_kinds, Tail(pairs), tuple_index)
    ELSE LET e == expand_actual_type(arg_types[Head(pairs)[2]][1],
                                     arg_kinds[Head(pairs)[2]], tuple_index)
         IN ArgumentStep(callee.arg_types[Head(pairs)[1]], e.type)
            \o ArgumentSteps(callee, arg_types, arg_kinds, Tail(pairs), e.tuple_index)

infer_constraints_for_callable(callee, arg_types, arg_kinds, formal_to_actual, g) ==
    RunSteps(ArgumentSteps(callee, arg_types, arg_kinds,
                           FormalActualPairs(formal_to_actual), 0), <<>>, g)

\* the function q.f called on its arguments
Apply(q) ==
    CASE q.f = "is_subtype" -> IsSubtype(q.left, q.right)
      [] q.f = "is_proper_subtype" -> IsProperSubtype(q.left, q.right)
      [] q.f = "is_protocol_implementation" -> IsProtocolImplementation(q.left, q.right)
      [] q.f = "is_callable_compatible" -> IsCallableCompatible(q.left, q.right)
      [] q.f = "find_member" -> FindMember(q.name, q.itype, q.class_obj)
      [] q.f = "erase_typevars" -> EraseTypeVars(q.t)
      [] q.f = "map_instance_to_supertype" ->
            MapInstanceToSupertype(q.instance, q.superclass)
      [] q.f = "make_simplified_union" -> MakeSimplifiedUnion(q.items)
      [] q.f = "infer_constraints" ->
            infer_constraints(q.template, q.actual, q.direction, q.g)
      [] q.f = "_infer_constraints" ->
            infer_constraints_inner(q.template, q.actual, q.direction, q.g)
      [] q.f = "infer_constraints_from_protocol_members" ->
            infer_constraints_from_protocol_members(q.instance, q.template, q.protocol,
                                                    q.class_obj, q.direction, q.g)
      [] q.f = "any_constraints" -> any_constraints(q.options, q.eager)
      [] q.f = "any_constraints_call" -> AnyConstraintsCall(q.options, q.eager)
      [] q.f = "infer_constraints_for_callable" ->
            infer_constraints_for_callable(q.callee, q.arg_types, q.arg_kinds,
                                           q.formal_to_actual, q.g)

\* ------------------------------------------------------------- inputs
\* Tuple[...] and the named tuple class Point(NamedTuple) with two fields
TupleOf(items) == TupleType(items, Instance("tuple", <<ObjectT>>))
PointOf(x, y) == TupleType(<<x, y>>, Instance("Point", <<>>))

\* def is_int(x: object) -> TypeGuard[int]
IsIntGuard == [Func(<<ObjectT>>, Instance("bool", <<>>)) EXCEPT !.type_guard = <<IntT>>]

Templates ==
    { T, TB, TC, IntT,
      Instance("List", <<T>>), Instance("Box", <<T>>), Instance("Sink", <<T>>),
      Instance("List", <<Instance("List", <<T>>)>>),
      UnionType(<<Instance("List", <<T>>), Instance("Box", <<S>>)>>),
      UnionType(<<Instance("List", <<T>>), Instance("List", <<T>>)>>),
      UnionType(<<Instance("Box", <<T>>), IntT>>),
      UnionType(<<T, IntT>>), UnionType(<<T, Instance("List", <<Nested>>)>>),
      UnionType(<<T, Instance("List", <<Nested>>), Instance("List", <<S>>)>>),
      Func(<<T>>, S), Func(<<T, T>>, T), Func(<<IntT>>, T),
      TupleOf(<<T, T>>), TupleOf(<<T, S>>), PointOf(T, T),
      Instance("Proto", <<T>>), Instance("CallProto", <<T>>),
      Instance("Linked", <<T>>), Instance("HasShape", <<T>>),
      Nested, Instance("List", <<Nested>>), JSON,
      Instance("Fn", <<P>>), Instance("Fn", <<PT>>),
      TypeType(T), PartialType, Ts, UnpackType(Ts), Parameters(<<T>>, PosKinds(1)) }

Actuals ==
    { IntT, StrT, ObjectT, AnyExplicit, AnyType("suggestion_engine"), NoneType,
      Instance("List", <<IntT>>), Instance("List", <<StrT>>),
      Instance("List", <<Instance("List", <<IntT>>)>>), Instance("List", <<V>>),
      Instance("Box", <<IntT>>), Instance("Sink", <<IntT>>), Instance("IntBox", <<>>),
      Instance("Fn", <<Parameters(<<IntT, StrT>>, PosKinds(2))>>), Instance("Fn", <<Q>>),
      UnionType(<<IntT, StrT>>),
      UnionType(<<Instance("List", <<IntT>>), StrT>>),
      UnionType(<<Instance("List", <<IntT>>), Instance("List", <<StrT>>)>>),
      UnionType(<<Instance("List", <<IntT>>), NoneType>>),
      UnionType(<<IntT, Instance("List", <<UninhabitedType>>)>>),
      UnionType(<<Instance("List", <<IntT>>), Instance("List", <<UninhabitedType>>)>>),
      UnionType(<<Instance("List", <<IntT>>), ObjectT>>),
      UnionType(<<Instance("List", <<IntT>>), Instance("List", <<AnyExplicit>>)>>),
      UnionType(<<Instance("Box", <<IntT>>), Instance("IntBox", <<>>)>>),
      Func(<<IntT>>, StrT), Func(<<IntT>>, IntT), Func(<<IntT, StrT>>, IntT), IsIntGuard,
      Overloaded(<<Func(<<StrT>>, StrT), Func(<<IntT>>, IntT), Func(<<ObjectT>>, ObjectT)>>),
      Overloaded(<<Func(<<StrT>>, StrT), Func(<<IntT, StrT>>, IntT)>>),
      TupleOf(<<IntT, StrT>>), TupleOf(<<IntT>>), PointOf(IntT, IntT),
      Instance("Impl", <<>>), Instance("Half", <<>>), Instance("IntList", <<>>),
      Instance("ImplShape", <<>>), Instance("Adder", <<>>),
      TypeType(Instance("Impl", <<>>)), TypeType(Instance("Half", <<>>)),
      Nested, NestedInt, Instance("List", <<NestedInt>>), Instance("List", <<Nested>>),
      JSON, Ts, V }

Directions == {SUBTYPE_OF, SUPERTYPE_OF}

\* inputs of two requests that run interleaved
ConcTemplates == { Nested, NestedInt, Instance("List", <<Nested>>), Instance("List", <<T>>) }
ConcActuals == { NestedInt, Instance("List", <<NestedInt>>), Instance("List", <<IntT>>) }
Workers == {"w1", "w2"}

\* constraint lists and options handed to the combinator
OptionPool ==
    { NoneOption, Some(<<>>),
      Some(<<Constraint(T, SUBTYPE_OF, IntT)>>),
      Some(<<Constraint(T, SUPERTYPE_OF, IntT)>>),
      Some(<<Constraint(T, SUPERTYPE_OF, IntT), Constraint(T, SUBTYPE_OF, IntT)>>),
      Some(<<Constraint(T, SUBTYPE_OF, IntT), Constraint(T, SUPERTYPE_OF, IntT)>>),
      Some(<<Constraint(T, SUPERTYPE_OF, AnyExplicit)>>),
      Some(<<Constraint(T, SUBTYPE_OF, AnyExplicit)>>),
      Some(<<Constraint(T, SUPERTYPE_OF, IntT), Constraint(S, SUPERTYPE_OF, StrT)>>),
      Some(<<Constraint(T, SUPERTYPE_OF, T)>>),
      Some(<<Constraint(TB, SUPERTYPE_OF, StrT)>>),
      Some(<<Constraint(TB, SUPERTYPE_OF, IntT), Constraint(TB, SUBTYPE_OF, StrT)>>) }

\* the option lists of up to n options
RECURSIVE OptionLists(_)
OptionLists(n) ==
    IF n = 0 THEN {<<>>}
    ELSE LET shorter == OptionLists(n - 1) IN
         shorter \cup {Append(os, o) : os \in shorter, o \in OptionPool}

\* constraints compared and hashed; T2 has the id of T and another bound
T2 == TypeVarType("T", "invariant", IntT, <<>>)
ConstraintPool ==
    { Constraint(tv, op, target) :
        tv \in {T, T2, S}, op \in Directions,
        target \in {IntT, AnyExplicit, AnyType("special_form"),
                    UnionType(<<IntT, StrT>>), UnionType(<<StrT, IntT>>)} }

\* the two sides of a protocol match
MemberInstances ==
    { Instance("Impl", <<>>), Instance("Half", <<>>), Instance("IntList", <<>>),
      Instance("ImplShape", <<>>), Instance("Adder", <<>>), IntT,
      Instance("Proto", <<IntT>>), Instance("Linked", <<IntT>>) }
MemberTemplates ==
    { Instance("Proto", <<T>>), Instance("Linked", <<T>>),
      Instance("HasShape", <<T>>), Instance("CallProto", <<T>>) }

\* calls handed to infer_constraints_for_callable: the callee, the types of
\* the two arguments (<<>> for None), their kinds, and for each formal the
\* arguments mapped to it
Callees ==
    { Func(<<T, S>>, T), Func(<<T, T>>, S), Func(<<Instance("List", <<T>>), T>>, S),
      Func(<<T, UnpackType(Ts)>>, T) }
ArgumentTypes ==
    { <<>>, <<IntT>>, <<StrT>>, <<Instance("List", <<IntT>>)>>,
      <<TupleOf(<<IntT, StrT>>)>> }
ArgumentLists == { <<a, b>> : a, b \in ArgumentTypes }
ArgumentKinds == { <<k1, k2>> : k1, k2 \in {"POS", "STAR"} }
FormalToActual ==
    { <<<<1>>, <<2>>>>, <<<<2>>, <<1>>>>, <<<<1, 2>>, <<>>>>, <<<<1>>, <<1>>>>,
      <<<<>>, <<2, 1>>>> }

\* ------------------------------------------------------ the state machine
\* inferring       TypeState.inferring
\* type_inferring  TypeInfo.inferring of every protocol class
\* pc              "idle", "returned" (the call returned result), "raised"
\* request         the call in progress or just ended
\* result          what the call returned
\* raised          "ok" or the exception that ended the call
\* threads         the callers that share the process: per caller its
\*                 position in infer_constraints and its local variables
VARIABLES inferring, type_inferring, pc, request, result, raised, threads
vars == <<inferring, type_inferring, pc, request, result, raised, threads>>

NoRequest == [op |-> "none"]
NoThread == [pc |-> "idle", template |-> NoneType, actual |-> NoneType,
             direction |-> SUBTYPE_OF, pushed |-> FALSE, res |-> <<>>]

Init ==
    /\ inferring = <<>>
    /\ type_inferring = [c \in ProtocolClasses |-> <<>>]
    /\ pc = "idle"
    /\ request = NoRequest
    /\ result = <<>>
    /\ raised = "ok"
    /\ threads = [w \in Workers |-> NoThread]

\* the guards a top-level call finds
Guards == [inf |-> inferring, pinf |-> type_inferring, depth |-> 0]

\* a call of a function of the module from outside, run to its end
Finish(o, req) ==
    /\ pc = "idle"
    /\ inferring' = o.inf
    /\ type_inferring' = o.pinf
    /\ request' = req
    /\ result' = o.res
    /\ raised' = o.st
    /\ pc' = IF o.st = "ok" THEN "returned" ELSE "raised"
    /\ UNCHANGED threads

\* infer_constraints(template, actual, direction)
Request(template, actual, direction) ==
    Finish(Apply([f |-> "infer_constraints", template |-> template, actual |-> actual,
                  direction |-> direction, g |-> Guards]),
           [op |-> "infer_constraints", template |-> template, actual |-> actual,
            direction |-> direction])

\* the caller takes the result; an exception is not caught and ends the run
Continue ==
    /\ pc = "returned"
    /\ pc' = "idle"
    /\ request' = NoRequest
    /\ result' = <<>>
    /\ UNCHANGED <<inferring, type_inferring, raised, threads>>

Next ==
    \/ \E t \in Templates, a \in Actuals, d \in Directions : Request(t, a, d)
    \/ Continue

Spec == Init /\ [][Next]_vars

\* ------------------------------------------- two callers in one process
\* infer_constraints up to the call of _infer_constraints (lines 148-159)
Enter(w, template, actual, direction) ==
    LET me == [threads[w] EXCEPT !.template = template, !.actual = actual,
                                 !.direction = direction] IN
    /\ threads[w].pc = "idle"
    /\ IF OnGuard(template, actual, inferring)
       THEN /\ threads' = [threads EXCEPT ![w] = [me EXCEPT !.pc = "done"]]
            /\ UNCHANGED inferring
       ELSE IF has_recursive_types(template) /\ ~has_type_vars(template)
       THEN /\ threads' = [threads EXCEPT ![w] = [me EXCEPT !.pc = "done"]]
            /\ UNCHANGED inferring
       ELSE IF has_recursive_types(template)
       THEN /\ inferring' = Append(inferring, <<template, actual>>)
            /\ threads' = [threads EXCEPT ![w] = [me EXCEPT !.pc = "descending",
                                                            !.pushed = TRUE]]
       ELSE /\ threads' = [threads EXCEPT ![w] = [me EXCEPT !.pc = "descending"]]
            /\ UNCHANGED inferring
    /\ UNCHANGED <<type_inferring, pc, request, result, raised>>

\* _infer_constraints came back to worker w with outcome o
Descended(w, o) ==
    /\ inferring' = o.inf
    /\ type_inferring' = o.pinf
    /\ threads' = [threads EXCEPT ![w] =
                     [@ EXCEPT !.res = o.res,
                               !.pc = IF o.st = "ok" THEN "leaving" ELSE "raised"]]
    /\ UNCHANGED <<pc, request, result, raised>>

\* the call of _infer_constraints (line 160 or 163)
Descend(w) ==
    /\ threads[w].pc = "descending"
    /\ Descended(w, Apply([f |-> "_infer_constraints", template |-> threads[w].template,
                           actual |-> threads[w].actual,
                           direction |-> threads[w].direction,
                           g |-> [inf |-> inferring, pinf |-> type_inferring,
                                  depth |-> 1]]))

\* the return without the pop
LeaveWithoutPop(w) ==
    /\ threads[w].pc = "leaving"
    /\ threads' = [threads EXCEPT ![w] = [@ EXCEPT !.pc = "done"]]
    /\ UNCHANGED <<inferring, type_inferring, pc, request, result, raised>>

\* TypeState.inferring.pop() and the return (lines 161-163)
Leave(w) ==
    /\ threads[w].pc = "leaving"
    /\ inferring' = IF threads[w].pushed THEN SubSeq(inferring, 1, Len(inferring) - 1)
                    ELSE inferring
    /\ threads' = [threads EXCEPT ![w] = [@ EXCEPT !.pc = "done"]]
    /\ UNCHANGED <<type_inferring, pc, request, result, raised>>

NextConc ==
    \/ \E w \in Workers, t \in ConcTemplates, a \in ConcActuals, d \in Directions :
          Enter(w, t, a, d)
    \/ \E w \in Workers : Descend(w)
    \/ \E w \in Workers : Leave(w)

SpecConc == Init /\ [][NextConc]_vars

\* ------------------------------------------------- the combinator alone
AnyConstraints(options, eager) ==
    /\ pc = "idle"
    /\ pc' = "returned"
    /\ request' = [op |-> "any_constraints", options |-> options, eager |-> eager]
    /\ result' = Apply([f |-> "any_constraints", options |-> options, eager |-> eager])
    /\ UNCHANGED <<inferring, type_inferring, raised, threads>>

NextCombinator ==
    \/ \E options \in OptionLists(MaxOptions), eager \in BOOLEAN :
          AnyConstraints(options, eager)
    \/ Continue

SpecCombinator == Init /\ [][NextCombinator]_vars

\* --------------------------------------------- constraints as values
\* c1 == c2, hash(c1), hash(c2), is_same_constraint(c1, c2)
Compare(c1, c2) ==
    /\ pc = "idle"
    /\ pc' = "returned"
    /\ request' = [op |-> "compare", c1 |-> c1, c2 |-> c2]
    /\ result' = <<[eq |-> Constraint_eq(c1, c2),
                    hash1 |-> Constraint_hash(c1), hash2 |-> Constraint_hash(c2),
                    same |-> is_same_constraint(c1, c2)]>>
    /\ UNCHANGED <<inferring, type_inferring, raised, threads>>

NextConstraint ==
    \/ \E c1 \in ConstraintPool, c2 \in ConstraintPool : Compare(c1, c2)
    \/ Continue

SpecConstraint == Init /\ [][NextConstraint]_vars

\* ------------------------------------------- protocol members alone
FromProtocolMembers(instance, template, protocol, class_obj, direction) ==
    Finish(Apply([f |-> "infer_constraints_from_protocol_members", instance |-> instance,
                  template |-> template, protocol |-> protocol, class_obj |-> class_obj,
                  direction |-> direction, g |-> Guards]),
           [op |-> "protocol_members", instance |-> instance, template |-> template,
            protocol |-> protocol, class_obj |-> class_obj, direction |-> direction])

NextProtocol ==
    \/ \E i \in MemberInstances, t \in MemberTemplates, c \in BOOLEAN, d \in Directions :
          FromProtocolMembers(i, t, t, c, d)
    \/ Continue

SpecProtocol == Init /\ [][NextProtocol]_vars

\* any_constraints call by call: request.pending holds the options of the
\* innermost call, which either calls any_constraints again or returns the
\* value every outer call returns as it is
Begin(options, eager) ==
    /\ pc = "idle"
    /\ pc' = "running"
    /\ request' = [op |-> "any_constraints", options |-> options, eager |-> eager,
                   pending |-> options]
    /\ UNCHANGED <<inferring, type_inferring, result, raised, threads>>

Retried(call) ==
    /\ call.retry # <<>>
    /\ request' = [request EXCEPT !.pending = call.retry[1]]
    /\ UNCHANGED <<inferring, type_inferring, pc, result, raised, threads>>

Recurse ==
    /\ pc = "running"
    /\ Retried(Apply([f |-> "any_constraints_call", options |-> request.pending,
                      eager |-> request.eager]))

Answered(call) ==
    /\ call.retry = <<>>
    /\ pc' = "returned"
    /\ result' = call.res
    /\ UNCHANGED <<inferring, type_inferring, request, raised, threads>>

Return ==
    /\ pc = "running"
    /\ Answered(Apply([f |-> "any_constraints_call", options |-> request.pending,
                       eager |-> request.eager]))

NextRetry ==
    \/ \E options \in OptionLists(MaxOptions), eager \in BOOLEAN : Begin(options, eager)
    \/ Recurse
    \/ Return

\* a call that has started runs on: it is the only thread of the program
SpecRetry == Init /\ [][NextRetry]_vars /\ WF_vars(Recurse) /\ WF_vars(Return)

\* infer_constraints_for_callable(callee, arg_types, arg_kinds, formal_to_actual, _)
ForCallable(callee, arg_types, arg_kinds, formal_to_actual) ==
    Finish(Apply([f |-> "infer_constraints_for_callable", callee |-> callee,
                  arg_types |-> arg_types, arg_kinds |-> arg_kinds,
                  formal_to_actual |-> formal_to_actual, g |-> Guards]),
           [op |-> "infer_constraints_for_callable", callee |-> callee,
            arg_types |-> arg_types, arg_kinds |-> arg_kinds,
            formal_to_actual |-> formal_to_actual])

NextCallable ==
    \/ \E c \in Callees, ts \in ArgumentLists, ks \in ArgumentKinds, m \in FormalToActual :
          ForCallable(c, ts, ks, m)
    \/ Continue

SpecCallable == Init /\ [][NextCallable]_vars

\* ------------------------------------------------------------- claims
\* a call of infer_constraints from outside has ended
Ended == pc # "idle" /\ request.op = "infer_constraints"

\* C1: when a top-level infer_constraints request ends, by a return or by
\* an exception raised inside the descent, TypeState.inferring and the
\* inferring list of every protocol class hold exactly what they held when
\* the request started.
C1_GuardsRestored ==
    [][pc = "idle" /\ request'.op = "infer_constraints"
         => inferring' = inferring /\ type_inferring' = type_inferring]_vars

\* C2: a request interleaved with another one returns what it returns when
\* it runs alone: it sees no pair the other request pushed.
C2_AsWhenAlone ==
    \A w \in Workers :
        threads[w].pc = "done"
          => threads[w].res = infer_constraints(threads[w].template, threads[w].actual,
                                                threads[w].direction, EmptyGuards).res

\* C3 as claimed: a bare type variable T against any actual X in direction
\* D returns exactly [Constraint(T, D, X)].
C3_BareVariable ==
    Ended /\ request.template.kind = "TypeVar"
      => /\ raised = "ok"
         /\ ConstraintsEq(result, <<Constraint(request.template, request.direction,
                                               request.actual)>>)

\* C3 amended: a bare type variable T against X in direction D returns []
\* when X is an Any of the suggestion engine, and otherwise exactly
\* [Constraint(T, D, X')], X' being X expanded to a proper type and, when
\* that is a union, simplified.
C3_BareVariableNormalized ==
    Ended /\ request.template.kind = "TypeVar"
      => /\ raised = "ok"
         /\ result =
              IF /\ get_proper_type(request.actual).kind = "Any"
                 /\ get_proper_type(request.actual).type_of_any = "suggestion_engine"
              THEN <<>>
              ELSE <<[type_var |-> request.template.id, op |-> request.direction,
                      target |-> normalized(request.actual),
                      origin_type_var |-> request.template]>>

\* a bare variable got the simplified union as its target
C3_Witness ==
    /\ pc = "returned" /\ request.op = "infer_constraints"
    /\ request.template = T
    /\ request.actual = UnionType(<<Instance("List", <<IntT>>), ObjectT>>)
    /\ request.direction = SUPERTYPE_OF
    /\ Len(result) = 1 /\ result[1].target = ObjectT /\ result[1].op = SUPERTYPE_OF

\* C4: a request that matches a recursive template against itself returns:
\* the guard stops the descent before the stack is exhausted.
C4_SelfMatchReturns ==
    Ended /\ has_recursive_types(request.template) /\ request.actual = request.template
      => pc = "returned" /\ raised = "ok"

\* the recursive alias matched against itself came back with a constraint
C4_Witness ==
    /\ pc = "returned" /\ request.op = "infer_constraints"
    /\ request.template = Nested /\ request.actual = Nested
    /\ result # <<>>

\* the guards the body of the request runs under (lines 154-160)
BodyGuards == PushPair(request.template, request.actual, EmptyGuards)

\* the results of matching every template against actual, one after another
RECURSIVE EachTemplate(_, _, _, _)
EachTemplate(templates, actual, direction, g) ==
    IF templates = <<>> THEN <<>>
    ELSE infer_constraints(Head(templates), actual, direction, g).res
         \o EachTemplate(Tail(templates), actual, direction, g)

\* C5 as claimed: in direction SUBTYPE_OF a union template Union[A, B]
\* against X returns the result for A against X followed by the result for
\* B against X.
C5_UnionTemplateConcat ==
    /\ pc = "returned" /\ request.op = "infer_constraints"
    /\ request.template.kind = "Union" /\ request.direction = SUBTYPE_OF
    => ConstraintsEq(result, EachTemplate(request.template.items, request.actual,
                                          SUBTYPE_OF, EmptyGuards))

\* C5 amended: in direction SUBTYPE_OF a union template against X returns
\* the results, in item order, of the nested matches of every item of the
\* simplified union (of the simplified type itself when one item is left)
\* against the simplified X.
C5_SimplifiedUnionConcat ==
    /\ pc = "returned" /\ request.op = "infer_constraints"
    /\ request.template.kind = "Union" /\ request.direction = SUBTYPE_OF
    => result = EachTemplate(IF normalized(request.template).kind = "Union"
                             THEN normalized(request.template).items
                             ELSE <<normalized(request.template)>>,
                             normalized(request.actual), SUBTYPE_OF, BodyGuards)

\* both items of a union template contributed, in their order
C5_Witness ==
    /\ pc = "returned" /\ request.op = "infer_constraints"
    /\ request.template = UnionType(<<Instance("List", <<T>>), Instance("Box", <<S>>)>>)
    /\ request.actual = AnyExplicit /\ request.direction = SUBTYPE_OF
    /\ Len(result) = 2 /\ result[1].type_var = "T" /\ result[2].type_var = "S"

\* the per-item attempts of template against items, and the definite ones
Attempts(template, items, g) ==
    [i \in 1..Len(items) |->
        infer_constraints_if_possible(template, items[i], SUBTYPE_OF, g).opt]
Definite(options) == {i \in 1..Len(options) : options[i].some /\ options[i].cs # <<>>}
OnlyDefinite(options) == options[CHOOSE i \in Definite(options) : TRUE].cs

\* C6 as claimed: in direction SUBTYPE_OF, with a template that is no type
\* variable and a union actual Union[A, B], when exactly one of the two
\* attempts gives a non-empty list the request returns that list.
C6_OneDefiniteBranch ==
    /\ pc = "returned" /\ request.op = "infer_constraints"
    /\ request.direction = SUBTYPE_OF
    /\ request.template.kind # "TypeVar" /\ request.actual.kind = "Union"
    /\ Cardinality(Definite(Attempts(request.template, request.actual.items,
                                     EmptyGuards))) = 1
    => ConstraintsEq(result, OnlyDefinite(Attempts(request.template,
                                                   request.actual.items, EmptyGuards)))

\* the items the attempts are made on: the complete ones if there is one
CompleteItems(items) ==
    IF SelectSeq(items, is_complete_type) # <<>> THEN SelectSeq(items, is_complete_type)
    ELSE items

\* C6 amended: in direction SUBTYPE_OF, with a template that after
\* simplification is neither a type variable nor a union and an actual that
\* after simplification is a union, when exactly one of the attempts on the
\* union's complete items (all items if none is complete) gives a non-empty
\* list the request returns that list.
C6_OneDefiniteCompleteBranch ==
    /\ pc = "returned" /\ request.op = "infer_constraints"
    /\ request.direction = SUBTYPE_OF
    /\ normalized(request.template).kind \notin {"TypeVar", "Union"}
    /\ normalized(request.actual).kind = "Union"
    /\ Cardinality(Definite(Attempts(normalized(request.template),
                                     CompleteItems(normalized(request.actual).items),
                                     BodyGuards))) = 1
    => result = OnlyDefinite(Attempts(normalized(request.template),
                                      CompleteItems(normalized(request.actual).items),
                                      BodyGuards))

\* List[T] against Union[List[int], List[Never]]: the one complete item decided
C6_Witness ==
    /\ pc = "returned" /\ request.op = "infer_constraints"
    /\ request.template = Instance("List", <<T>>)
    /\ request.actual =
         UnionType(<<Instance("List", <<IntT>>), Instance("List", <<UninhabitedType>>)>>)
    /\ request.direction = SUBTYPE_OF
    /\ Len(result) = 2 /\ \A i \in 1..2 : result[i].target = IntT

\* the options that survive: not None, and not empty under eager
Surviving(options, eager) ==
    SelectSeq(options, LAMBDA o : o.some /\ (eager => o.cs # <<>>))
AsSet(cs) == {Constraint_hash(cs[i]) : i \in 1..Len(cs)}

\* C7: any_constraints([X, X, X], eager=True) is X for a non-empty X, and
\* when all surviving options are equal as sets of constraints the result
\* is one of them.
C7_Idempotent ==
    pc = "returned" /\ request.op = "any_constraints"
    => /\ /\ request.eager /\ Len(request.options) = 3
          /\ request.options[1].some /\ request.options[1].cs # <<>>
          /\ request.options[2] = request.options[1]
          /\ request.options[3] = request.options[1]
          => result = request.options[1].cs
       /\ /\ Surviving(request.options, request.eager) # <<>>
          /\ \A i \in 1..Len(Surviving(request.options, request.eager)) :
                AsSet(Surviving(request.options, request.eager)[i].cs)
                  = AsSet(Surviving(request.options, request.eager)[1].cs)
          => \E i \in 1..Len(Surviving(request.options, request.eager)) :
                result = Surviving(request.options, request.eager)[i].cs

\* three times the same two constraints, returned as they are
C7_Witness ==
    /\ pc = "returned" /\ request.op = "any_constraints" /\ request.eager
    /\ request.options = [i \in 1..3 |->
          Some(<<Constraint(T, SUPERTYPE_OF, IntT), Constraint(T, SUBTYPE_OF, IntT)>>)]
    /\ result = <<Constraint(T, SUPERTYPE_OF, IntT), Constraint(T, SUBTYPE_OF, IntT)>>

\* the constraints of member i of the protocol, found on both sides
MemberResult(name, inst, temp, protocol, direction) ==
    infer_constraints(temp, inst, direction, EmptyGuards).res
    \o (IF IsSettable(name, protocol.type)
        THEN infer_constraints(temp, inst, neg_op(direction), EmptyGuards).res
        ELSE <<>>)
MembersFound(instance, template, protocol, class_obj) ==
    \A i \in 1..Len(ProtocolMembers(protocol.type)) :
        /\ find_member(ProtocolMembers(protocol.type)[i], instance, class_obj) # <<>>
        /\ find_member(ProtocolMembers(protocol.type)[i], template, FALSE) # <<>>

\* C8: when every member of the protocol is found on the instance and on
\* the template the result is, member by member in declaration order, the
\* constraints in the given direction followed, for a settable member, by
\* those in the opposite direction; when a lookup fails the result is empty.
C8_AllOrNothing ==
    pc = "returned" /\ request.op = "protocol_members"
    => result =
         IF MembersFound(request.instance, request.template, request.protocol,
                         request.class_obj)
         THEN Flatten([i \in 1..Len(ProtocolMembers(request.protocol.type)) |->
                  MemberResult(ProtocolMembers(request.protocol.type)[i],
                      find_member(ProtocolMembers(request.protocol.type)[i],
                                  request.instance, request.class_obj)[1],
                      find_member(ProtocolMembers(request.protocol.type)[i],
                                  request.template, FALSE)[1],
                      request.protocol, request.direction)])
         ELSE <<>>

\* Half has the first member of Proto and lacks the second: nothing is returned
C8_Witness ==
    /\ pc = "returned" /\ request.op = "protocol_members"
    /\ request.instance = Instance("Half", <<>>)
    /\ request.template = Instance("Proto", <<T>>)
    /\ find_member(ProtocolMembers("Proto")[1], request.instance, request.class_obj) # <<>>
    /\ find_member(ProtocolMembers("Proto")[2], request.instance, request.class_obj) = <<>>
    /\ result = <<>>

BothAny(c1, c2) ==
    get_proper_type(c1.target).kind = "Any" /\ get_proper_type(c2.target).kind = "Any"

\* C9 as claimed: two constraints are equal when variable, direction and
\* target agree, and also when the variable agrees and both targets are
\* Any, whatever the directions; equal constraints have the same hash.
C9_EqualityIgnoresDirectionOfAny ==
    pc = "returned" /\ request.op = "compare"
    => /\ result[1].eq =
            /\ request.c1.type_var = request.c2.type_var
            /\ \/ BothAny(request.c1, request.c2)
               \/ /\ request.c1.op = request.c2.op
                  /\ type_eq(request.c1.target, request.c2.target)
       /\ result[1].eq => result[1].hash1 = result[1].hash2

\* C9 amended: two constraints are equal exactly when variable, direction
\* and target agree, also when both targets are Any, and equal constraints
\* have the same hash; it is is_same_constraint that takes two constraints
\* on the same variable with Any targets for the same whatever their
\* directions.
C9_EqualityStructural ==
    pc = "returned" /\ request.op = "compare"
    => /\ result[1].eq =
            /\ request.c1.type_var = request.c2.type_var
            /\ request.c1.op = request.c2.op
            /\ type_eq(request.c1.target, request.c2.target)
       /\ result[1].eq => result[1].hash1 = result[1].hash2
       /\ /\ request.c1.type_var = request.c2.type_var
          /\ BothAny(request.c1, request.c2)
          => result[1].same

\* T <: Any and T :> Any: not equal, and the same for is_same_constraint
C9_Witness ==
    /\ pc = "returned" /\ request.op = "compare"
    /\ request.c1 = Constraint(T, SUBTYPE_OF, AnyExplicit)
    /\ request.c2 = Constraint(T, SUPERTYPE_OF, AnyExplicit)
    /\ ~result[1].eq /\ result[1].same

\* a callable template without parameter specification and without
\* ellipsis arguments was matched against a callable
CallableRequest ==
    /\ pc = "returned" /\ request.op = "infer_constraints"
    /\ request.template.kind = "Callable" /\ request.actual.kind = "Callable"
    /\ param_spec(request.template) = <<>>
    /\ ~request.template.is_ellipsis_args

\* the constraints of the aligned parameter pairs, direction negated
RECURSIVE ParameterResults(_, _, _, _)
ParameterResults(ts, as, direction, g) ==
    IF ts = <<>> \/ as = <<>> THEN <<>>
    ELSE infer_constraints(Head(ts), Head(as), neg_op(direction), g).res
         \o ParameterResults(Tail(ts), Tail(as), direction, g)

\* C10 as claimed: the result is that of the aligned parameter pairs with
\* the direction negated, followed by that of the return types in the
\* direction of the request.
C10_ParametersThenReturn ==
    CallableRequest
    => result = ParameterResults(request.template.arg_types, request.actual.arg_types,
                                 request.direction, BodyGuards)
                \o infer_constraints(request.template.ret_type, request.actual.ret_type,
                                     request.direction, BodyGuards).res

\* type_guard if the callable declares one, else its return type
Returned(c) == IF c.type_guard # <<>> THEN c.type_guard[1] ELSE c.ret_type

\* C10 amended: the result is that of the aligned parameter pairs with the
\* direction negated, followed by that of the return types in the direction
\* of the request, where a callable that declares a type guard has the
\* guarded type in place of its return type.
C10_ParametersThenReturnOrGuard ==
    CallableRequest
    => result = ParameterResults(request.template.arg_types, request.actual.arg_types,
                                 request.direction, BodyGuards)
                \o infer_constraints(Returned(request.template), Returned(request.actual),
                                     request.direction, BodyGuards).res

\* Callable[[T], S] against Callable[[int], str]: T <: int, S :> str
C10_Witness ==
    /\ pc = "returned" /\ request.op = "infer_constraints"
    /\ request.template = Func(<<T>>, S) /\ request.actual = Func(<<IntT>>, StrT)
    /\ request.direction = SUPERTYPE_OF
    /\ result = <<Constraint(T, SUBTYPE_OF, IntT), Constraint(S, SUPERTYPE_OF, StrT)>>

\* a class instance matched nominally against an instance of a class all
\* of whose type parameters are plain type variables
NominalRequest ==
    /\ pc = "returned" /\ request.op = "infer_constraints"
    /\ request.template.kind = "Instance" /\ request.actual.kind = "Instance"
    /\ \/ /\ request.direction = SUBTYPE_OF
          /\ has_base(request.template.type, request.actual.type)
          /\ \A i \in 1..Len(ClassTypeVars(request.actual.type)) :
                ClassTypeVars(request.actual.type)[i].kind = "TypeVar"
       \/ /\ request.direction = SUPERTYPE_OF
          /\ has_base(request.actual.type, request.template.type)
          /\ \A i \in 1..Len(ClassTypeVars(request.template.type)) :
                ClassTypeVars(request.template.type)[i].kind = "TypeVar"

\* per type parameter: its direction(s) by variance, the request's first
RECURSIVE ByVariance(_, _, _, _, _)
ByVariance(tvars, template_args, other_args, direction, g) ==
    IF tvars = <<>> \/ template_args = <<>> \/ other_args = <<>> THEN <<>>
    ELSE (IF Head(tvars).variance # "contravariant"
          THEN infer_constraints(Head(template_args), Head(other_args), direction, g).res
          ELSE <<>>)
         \o (IF Head(tvars).variance # "covariant"
             THEN infer_constraints(Head(template_args), Head(other_args),
                                    neg_op(direction), g).res
             ELSE <<>>)
         \o ByVariance(Tail(tvars), Tail(template_args), Tail(other_args), direction, g)

\* C11: in a nominal match every plain type parameter is matched by its
\* declared variance: covariant in the request's direction only,
\* contravariant in the opposite direction only, invariant in both, the
\* request's direction first.
C11_ByVariance ==
    NominalRequest
    => result =
         IF request.direction = SUBTYPE_OF
         THEN ByVariance(ClassTypeVars(request.actual.type),
                         map_instance_to_supertype(request.template,
                                                   request.actual.type).args,
                         request.actual.args, request.direction, BodyGuards)
         ELSE ByVariance(ClassTypeVars(request.template.type), request.template.args,
                         map_instance_to_supertype(request.actual,
                                                   request.template.type).args,
                         request.direction, BodyGuards)

\* Box[T], T covariant, against Box[int] as supertype: exactly T :> int
C11_Witness ==
    /\ pc = "returned" /\ request.op = "infer_constraints"
    /\ request.template = Instance("Box", <<T>>)
    /\ request.actual = Instance("Box", <<IntT>>)
    /\ request.direction = SUPERTYPE_OF
    /\ result = <<Constraint(T, SUPERTYPE_OF, IntT)>>

\* a fixed tuple template without unpack item matched against a fixed tuple
TupleRequest ==
    /\ pc = "returned" /\ request.op = "infer_constraints"
    /\ request.template.kind = "Tuple" /\ request.actual.kind = "Tuple"
    /\ find_unpack_in_list(request.template.items) = 0

\* the results of the items matched pairwise, in order
RECURSIVE ElementResults(_, _, _, _)
ElementResults(ts, as, direction, g) ==
    IF ts = <<>> \/ as = <<>> THEN <<>>
    ELSE infer_constraints(Head(ts), Head(as), direction, g).res
         \o ElementResults(Tail(ts), Tail(as), direction, g)

\* C12: a fixed tuple template without unpack item against a fixed tuple
\* of the same length, not both named tuples, returns the results of the
\* items pairwise in order, in the request's direction, a repeated variable
\* giving one constraint per item; against a fixed tuple of another length
\* it returns no constraints.
C12_TupleItemwise ==
    TupleRequest
    => /\ /\ Len(request.actual.items) = Len(request.template.items)
          /\ ~(/\ IsNamedTuple(request.actual.partial_fallback.type)
               /\ IsNamedTuple(request.template.partial_fallback.type))
          => result = ElementResults(request.template.items, request.actual.items,
                                     request.direction, BodyGuards)
       /\ Len(request.actual.items) # Len(request.template.items) => result = <<>>

\* Tuple[T, T] against Tuple[int, str] as supertype: T :> int, T :> str
C12_Witness ==
    /\ pc = "returned" /\ request.op = "infer_constraints"
    /\ request.template = TupleOf(<<T, T>>) /\ request.actual = TupleOf(<<IntT, StrT>>)
    /\ request.direction = SUPERTYPE_OF
    /\ result = <<Constraint(T, SUPERTYPE_OF, IntT), Constraint(T, SUPERTYPE_OF, StrT)>>

\* the type of __call__ on an instance of a protocol whose only member it is
CallSignature(protocol) == find_member("__call__", protocol, FALSE)[1]
IsCallbackProtocol(t) ==
    t.kind = "Instance" /\ IsProtocol(t.type) /\ ProtocolMembers(t.type) = <<"__call__">>

\* C13 as claimed: a type variable bounded by a protocol whose only member
\* is __call__, against a function compatible with that member, returns
\* what the member's signature against the function returns.
C13_BoundedVariableAsCallSignature ==
    /\ pc = "returned" /\ request.op = "infer_constraints"
    /\ request.template.kind = "TypeVar"
    /\ IsCallbackProtocol(request.template.upper_bound)
    /\ request.actual.kind = "Callable"
    /\ is_subtype(request.actual, CallSignature(request.template.upper_bound))
    => ConstraintsEq(result,
                     infer_constraints(CallSignature(request.template.upper_bound),
                                       request.actual, request.direction,
                                       EmptyGuards).res)

\* C13 amended: a generic protocol instance whose only member is __call__,
\* against a function compatible with the erased member, returns what the
\* member's signature against the function returns; a type variable bounded
\* by such a protocol returns the one constraint of the variable against
\* the function, as any bare type variable.
C13_CallbackProtocolAsCallSignature ==
    /\ pc = "returned" /\ request.op = "infer_constraints"
    /\ request.actual.kind = "Callable"
    => /\ /\ IsCallbackProtocol(request.template)
          /\ is_subtype(request.actual, erase_typevars(CallSignature(request.template)))
          => result =
               infer_constraints(CallSignature(request.template), request.actual,
                   request.direction,
                   [BodyGuards EXCEPT !.pinf[request.template.type] =
                                         Append(@, request.template)]).res
       /\ /\ request.template.kind = "TypeVar"
          /\ IsCallbackProtocol(request.template.upper_bound)
          => result = <<[type_var |-> request.template.id, op |-> request.direction,
                         target |-> request.actual,
                         origin_type_var |-> request.template]>>

\* CallProto[T], __call__(T) -> T, against (int) -> str: T <: int, T :> str
C13_Witness ==
    /\ pc = "returned" /\ request.op = "infer_constraints"
    /\ request.template = Instance("CallProto", <<T>>)
    /\ request.actual = Func(<<IntT>>, StrT) /\ request.direction = SUPERTYPE_OF
    /\ result = <<Constraint(T, SUBTYPE_OF, IntT), Constraint(T, SUPERTYPE_OF, StrT)>>

\* the request went through the guard and the dispatcher to the visitor:
\* neither operand is a union after normalisation, the template is no type
\* variable and the actual no Any of the suggestion engine
ReachesVisitor ==
    /\ Ended
    /\ ~(has_recursive_types(request.template) /\ ~has_type_vars(request.template))
    /\ normalized(request.template).kind \notin {"TypeVar", "Union"}
    /\ normalized(request.actual).kind # "Union"
    /\ ~(normalized(request.actual).kind = "Any"
         /\ normalized(request.actual).type_of_any = "suggestion_engine")

\* the visitor applied to the operands of the request as they are
Visited ==
    RunSteps(accept(request.template, request.actual, request.direction, EmptyGuards),
             <<>>, EmptyGuards)

\* C14: the visitor applied to a type variable, a union, a recursive alias
\* or a partial type as template ends with a fatal error, and so does a
\* request whose template reaches it as one of these; a parameter list
\* template that reaches it with an actual other than Any ends the request
\* with a fatal error; no list is returned.
C14_FatalTemplates ==
    /\ Ended /\ request.template.kind \in {"TypeVar", "Union", "Alias", "Partial"}
       => Visited.st = "fatal"
    /\ ReachesVisitor
       /\ \/ normalized(request.template).kind \in {"TypeVar", "Union", "Alias", "Partial"}
          \/ /\ normalized(request.template).kind = "Parameters"
             /\ normalized(request.actual).kind # "Any"
       => pc = "raised" /\ raised = "fatal" /\ result = <<>>

\* (T) as a bare parameter list against int
C14_Witness ==
    /\ pc = "raised" /\ raised = "fatal" /\ request.op = "infer_constraints"
    /\ request.template = Parameters(<<T>>, PosKinds(1))
    /\ request.actual = IntT

\* C15: the visitor applied to a TypeVarTuple or Unpack template, or to an
\* Instance template with a TypeVarTuple actual, raises NotImplementedError,
\* and a request that reaches the visitor with such operands ends with that
\* exception, never with a returned list.
C15_NotImplemented ==
    /\ Ended
       /\ \/ request.template.kind \in {"TypeVarTuple", "Unpack"}
          \/ request.template.kind = "Instance" /\ request.actual.kind = "TypeVarTuple"
       => Visited.st = "notimpl"
    /\ ReachesVisitor
       /\ \/ normalized(request.template).kind \in {"TypeVarTuple", "Unpack"}
          \/ /\ normalized(request.template).kind = "Instance"
             /\ normalized(request.actual).kind = "TypeVarTuple"
       => pc = "raised" /\ raised = "notimpl"

\* List[T] against the TypeVarTuple Ts
C15_Witness ==
    /\ pc = "raised" /\ raised = "notimpl" /\ request.op = "infer_constraints"
    /\ request.template = Instance("List", <<T>>)
    /\ request.actual = Ts

\* the ids of the type variables (plain, ParamSpec, TypeVarTuple) in a type
RECURSIVE TypeVarIds(_)
TypeVarIds(t) ==
    (IF t.kind \in {"TypeVar", "ParamSpec", "TypeVarTuple"} THEN {t.id} ELSE {})
    \cup UNION { TypeVarIds(Components(t)[i]) : i \in 1..Len(Components(t)) }

PresentPairs ==
    SelectSeq(FormalActualPairs(request.formal_to_actual),
              LAMBDA p : request.arg_types[p[2]] # <<>>)
\* the dispatcher calls the request makes, in order
Invocations ==
    ArgumentSteps(request.callee, request.arg_types, request.arg_kinds,
                  FormalActualPairs(request.formal_to_actual), 0)

\* C17: infer_constraints_for_callable calls infer_constraints once for
\* each (formal, argument) pair whose argument type is not None, in the
\* order of the formals and of the arguments of each formal, on the type of
\* the formal and the expanded type of the argument, with SUPERTYPE_OF, and
\* returns the results of these calls concatenated in that order.
C17_OncePerPresentArgument ==
    pc = "returned" /\ request.op = "infer_constraints_for_callable"
    => /\ Len(Invocations) = Len(PresentPairs)
       /\ \A k \in 1..Len(Invocations) :
            /\ Invocations[k].op = "call"
            /\ Invocations[k].d = SUPERTYPE_OF
            /\ Invocations[k].t = request.callee.arg_types[PresentPairs[k][1]]
            /\ request.arg_kinds[PresentPairs[k][2]] = "POS"
               => Invocations[k].a = request.arg_types[PresentPairs[k][2]][1]
       /\ result = Flatten([k \in 1..Len(PresentPairs) |->
                      infer_constraints(request.callee.arg_types[PresentPairs[k][1]],
                                        Invocations[k].a, SUPERTYPE_OF, EmptyGuards).res])

\* f(x: List[T], y: T) called with y = str first and x = List[int] second,
\* formals in order: T :> int and T <: int from x, then T :> str from y
C17_Witness ==
    /\ pc = "returned" /\ request.op = "infer_constraints_for_callable"
    /\ request.callee = Func(<<Instance("List", <<T>>), T>>, S)
    /\ request.arg_types = <<<<StrT>>, <<Instance("List", <<IntT>>)>>>>
    /\ request.arg_kinds = <<"POS", "POS">>
    /\ request.formal_to_actual = <<<<2>>, <<1>>>>
    /\ result = <<Constraint(T, SUPERTYPE_OF, IntT), Constraint(T, SUBTYPE_OF, IntT),
                  Constraint(T, SUPERTYPE_OF, StrT)>>

\* worker w passes the guard of infer_constraints in this step
Entering(w) == threads[w].pc = "idle" /\ threads'[w].pc # "idle"
\* the descent of worker w has returned and w returns in this step
Leaving(w) == threads[w].pc = "leaving" /\ threads'[w].pc = "done"
Pushes(template) == has_recursive_types(template) /\ has_type_vars(template)

\* C18: a call whose pair is on TypeState.inferring returns [] and leaves
\* the list as it is; a call whose template has recursive types and no type
\* variable returns [] and leaves the list as it is; a call appends its pair
\* exactly when it is neither of these and its template has recursive types
\* and a type variable; when the descent of such a call has returned, the
\* last pair of the list is removed, and no other call removes one.
C18_GuardFrame ==
    [][\A w \in Workers :
         /\ Entering(w) =>
              /\ OnGuard(threads'[w].template, threads'[w].actual, inferring)
                 => /\ threads'[w].pc = "done" /\ threads'[w].res = <<>>
                    /\ inferring' = inferring
              /\ /\ has_recursive_types(threads'[w].template)
                 /\ ~has_type_vars(threads'[w].template)
                 => /\ threads'[w].pc = "done" /\ threads'[w].res = <<>>
                    /\ inferring' = inferring
              /\ inferring' # inferring
                 <=> /\ ~OnGuard(threads'[w].template, threads'[w].actual, inferring)
                     /\ Pushes(threads'[w].template)
              /\ inferring' # inferring
                 => inferring' = Append(inferring, <<threads'[w].template,
                                                     threads'[w].actual>>)
         /\ Leaving(w) =>
              inferring' = IF Pushes(threads[w].template)
                           THEN SubSeq(inferring, 1, Len(inferring) - 1)
                           ELSE inferring
      ]_vars

\* w1 pushed (Nested, NestedInt), came back from the descent and popped it;
\* w2 made the same call while the pair was on the list and got []
C18_Witness ==
    /\ threads["w1"].pc = "done" /\ threads["w1"].pushed
    /\ threads["w1"].template = Nested /\ threads["w1"].actual = NestedInt
    /\ threads["w2"].pc = "done" /\ ~threads["w2"].pushed
    /\ threads["w2"].template = Nested /\ threads["w2"].actual = NestedInt
    /\ threads["w2"].res = <<>>
    /\ inferring = <<>>

\* the actual of the request is an Any of the suggestion engine
SuggestedActual ==
    /\ Ended
    /\ get_proper_type(request.actual).kind = "Any"
    /\ get_proper_type(request.actual).type_of_any = "suggestion_engine"

\* C19: against an Any of the suggestion engine every template returns the
\* empty list: a type variable, for which the base case would give a
\* constraint, a union in either direction, and a template the visitor
\* would raise on.
C19_SuggestionEngineAny ==
    SuggestedActual
    => pc = "returned" /\ result = <<>> /\ inferring = <<>>

\* the bare type variable T against an Any of the suggestion engine
C19_Witness ==
    /\ SuggestedActual /\ pc = "returned" /\ result = <<>>
    /\ request.template = T

\* a call of any_constraints has returned
Combined == pc = "returned" /\ request.op = "any_constraints"
\* the options that survive lines 318-321
Survivors == ValidOptions(request.options, request.eager)
AllAny(o) == \A i \in 1..Len(o.cs) : get_proper_type(o.cs[i].target).kind = "Any"
\* any_constraints reaches line 333 and takes the merge of lines 339-348
MergeStepTaken ==
    /\ Len(Survivors) >= 2
    /\ ~\A i \in 2..Len(Survivors) :
           is_same_constraints(Survivors[1].cs, Survivors[i].cs)
    /\ MergeStep(Survivors, select_trivial(Survivors))
PairwiseSimilar(options) ==
    \A i, j \in 1..Len(options) : is_similar_constraints(options[i].cs, options[j].cs)
SimilarToFirst(options) ==
    \A i \in 2..Len(options) : is_similar_constraints(options[1].cs, options[i].cs)
\* the survivors that are not all against Any, each target in a union with
\* the Any of the implementation
WithAny(c) ==
    [c EXCEPT !.target = make_union(<<c.target, AnyType("implementation_artifact")>>)]
RemainingWithAny ==
    LET rest == SelectSeq(Survivors, LAMBDA o : ~AllAny(o)) IN
    [i \in 1..Len(rest) |-> Some([j \in 1..Len(rest[i].cs) |-> WithAny(rest[i].cs[j])])]
SomeButNotAllAny ==
    /\ \E i \in 1..Len(Survivors) : AllAny(Survivors[i])
    /\ \E i \in 1..Len(Survivors) : ~AllAny(Survivors[i])

WithinBounds(o) ==
    LET kept == SelectSeq(o.cs, LAMBDA c :
                    is_subtype(c.target, c.origin_type_var.upper_bound)) IN
    IF ~o.some \/ o.cs = <<>> THEN o
    ELSE IF kept = <<>> THEN NoneOption ELSE Some(kept)
OptionsWithinBounds == [i \in 1..Len(request.options) |-> WithinBounds(request.options[i])]
\* two or more options survive, they are not all the same and the merge
\* with Any is not taken
Inconsistent ==
    /\ Combined
    /\ Len(Survivors) >= 2
    /\ ~\A i \in 2..Len(Survivors) :
           is_same_constraints(Survivors[1].cs, Survivors[i].cs)
    /\ ~MergeStepTaken

\* C21: when two or more options survive, are not all the same and are not
\* merged with Any, the result is that of any_constraints on the original
\* options filtered by the upper bounds if the filter changed one of them,
\* and the empty list if it changed none.
C21_FilterThenRetryOrEmpty ==
    Inconsistent
    => result = IF OptionsWithinBounds # request.options
                THEN any_constraints(OptionsWithinBounds, request.eager)
                ELSE <<>>

\* [TB :> str] is not within the bound int of TB and is dropped: the retry
\* returns the other option
C21_Witness ==
    /\ Inconsistent
    /\ request.options = <<Some(<<Constraint(TB, SUPERTYPE_OF, StrT)>>),
                           Some(<<Constraint(T, SUBTYPE_OF, IntT)>>)>>
    /\ result = <<Constraint(T, SUBTYPE_OF, IntT)>>

\* a nominal match of two instances of one class whose only type parameter
\* is a ParamSpec, the template's argument being a ParamSpec
ParamSpecRequest ==
    /\ pc = "returned" /\ request.op = "infer_constraints"
    /\ request.template.kind = "Instance" /\ request.actual.kind = "Instance"
    /\ request.template.type = request.actual.type
    /\ Len(ClassTypeVars(request.template.type)) = 1
    /\ ClassTypeVars(request.template.type)[1].kind = "ParamSpec"
    /\ request.template.args[1].kind = "ParamSpec"
\* the argument on the other side, and what is left of it after the
\* prefix of the template's ParamSpec
Operand == get_proper_type(request.actual.args[1])
FormalPrefix == request.template.args[1].prefix.arg_types
Remainder ==
    [Operand EXCEPT !.arg_types = Slice(@, Len(FormalPrefix) + 1, Len(@)),
                    !.arg_kinds = Slice(@, Len(FormalPrefix) + 1, Len(@))]

\* C22: in a nominal match a ParamSpec parameter whose operand is a callable
\* or a parameter list gives one constraint, ParamSpec <: remainder of the
\* operand after the prefix, whatever the direction of the request, and
\* then the results of the prefix parameters against the operand's in the
\* opposite direction; a ParamSpec operand gives ParamSpec <: operand.
C22_ParamSpecBoundBelow ==
    ParamSpecRequest
    => /\ Operand.kind \in {"Parameters", "Callable"}
          => result =
               <<Constraint(request.template.args[1], SUBTYPE_OF, Remainder)>>
               \o Flatten([i \in 1..Min(Len(FormalPrefix), Len(Operand.arg_types)) |->
                     infer_constraints(FormalPrefix[i], Operand.arg_types[i],
                                       neg_op(request.direction), EmptyGuards).res])
       /\ Operand.kind = "ParamSpec"
          => result = <<Constraint(request.template.args[1], SUBTYPE_OF, Operand)>>

\* a callable template against an overloaded actual
OverloadRequest ==
    /\ Ended
    /\ request.template.kind = "Callable" /\ request.actual.kind = "Overloaded"
\* the positions of the items the template can be called as, return types
\* ignored
Compatible ==
    { i \in 1..Len(request.actual.items) :
        is_callable_compatible(request.actual.items[i], request.template) }
\* the first of them, or the first item when there is none
Selected ==
    IF Compatible = {} THEN request.actual.items[1]
    ELSE request.actual.items[CHOOSE i \in Compatible : \A j \in Compatible : i <= j]
AgainstSelected ==
    infer_constraints(request.template, Selected, request.direction, BodyGuards)

\* C23: a callable template against an overloaded actual ends as the
\* template against one item does: the first item, in declared order, that
\* is callable compatible with the template when return types are ignored,
\* and the first item when none is.
C23_FirstCompatibleItem ==
    OverloadRequest
    => /\ raised = AgainstSelected.st
       /\ pc = "returned" => result = AgainstSelected.res

\* (int) -> T against the overloads (str) -> str, (int) -> int and
\* (object) -> object: the second item is taken, not the first and not the
\* third
C23_Witness ==
    /\ OverloadRequest /\ pc = "returned"
    /\ request.template = Func(<<IntT>>, T)
    /\ Compatible = {2, 3}
    /\ request.direction = SUPERTYPE_OF
    /\ result = <<Constraint(T, SUPERTYPE_OF, IntT)>>

\* a request in direction SUPERTYPE_OF that reaches lines 225-240: the
\* template is a union after simplification, the actual is not
UnionTemplateRequest ==
    /\ pc = "returned" /\ request.op = "infer_constraints"
    /\ request.direction = SUPERTYPE_OF
    /\ ~(has_recursive_types(request.template) /\ ~has_type_vars(request.template))
    /\ normalized(request.template).kind = "Union"
    /\ normalized(request.actual).kind # "Union"
    /\ ~(normalized(request.actual).kind = "Any"
         /\ normalized(request.actual).type_of_any = "suggestion_engine")
\* the attempts on the items of the template, combined without eagerness
ItemsCombined ==
    any_constraints(
        [i \in 1..Len(normalized(request.template).items) |->
            infer_constraints_if_possible(normalized(request.template).items[i],
                                          normalized(request.actual),
                                          SUPERTYPE_OF, BodyGuards).opt],
        FALSE)
RecursiveOnlyTemplate ==
    /\ has_recursive_types(normalized(request.template))
    /\ ~has_recursive_types(normalized(request.actual))
\* the items of the template that are no type variables, as one template,
\* and those that are
NonVariableGroup ==
    infer_constraints(
        make_union(SelectSeq(normalized(request.template).items,
                             LAMBDA t : t.kind # "TypeVar")),
        normalized(request.actual), SUPERTYPE_OF, BodyGuards).res
VariableGroup ==
    infer_constraints(
        make_union(SelectSeq(normalized(request.template).items,
                             LAMBDA t : t.kind = "TypeVar")),
        normalized(request.actual), SUPERTYPE_OF, BodyGuards).res

\* C24: in direction SUPERTYPE_OF a union template against an actual that
\* is no union returns the non-eager combination of the attempts on its
\* items when that is not empty; when it is empty, the template has
\* recursive types and the actual has none, it returns what the items that
\* are no type variables give as one template, and what the type variable
\* items give if that is empty; otherwise it returns the empty list.
C24_RecursiveUnionFallback ==
    UnionTemplateRequest
    => result = IF ItemsCombined # <<>> THEN ItemsCombined
                ELSE IF ~RecursiveOnlyTemplate THEN <<>>
                ELSE IF NonVariableGroup # <<>> THEN NonVariableGroup
                ELSE VariableGroup

\* the combination is empty and so is the result of the items that are no
\* type variables: the result is that of the type variable items
C24_Witness ==
    /\ UnionTemplateRequest /\ RecursiveOnlyTemplate
    /\ ItemsCombined = <<>> /\ NonVariableGroup = <<>>
    /\ result # <<>> /\ result = VariableGroup

\* the constraints of all the options of a list
RECURSIVE NumConstraints(_)
NumConstraints(options) ==
    IF options = <<>> THEN 0
    ELSE (IF Head(options).some THEN Len(Head(options).cs) ELSE 0)
         + NumConstraints(Tail(options))
\* any_constraints calls itself in this step
Retrying == pc = "running" /\ pc' = "running" /\ request'.pending # request.pending

\* C25: a call of any_constraints returns; every call it makes of itself
\* is on a list with no more options and no more constraints and with
\* fewer of one of them; filtering a filtered list changes nothing; and
\* the value returned is that of the recursive definition.
C25_Terminates ==
    /\ (pc = "running") ~> (pc = "returned")
    /\ [][Retrying =>
            /\ Len(request'.pending) <= Len(request.pending)
            /\ NumConstraints(request'.pending) <= NumConstraints(request.pending)
            /\ \/ Len(request'.pending) < Len(request.pending)
               \/ NumConstraints(request'.pending) < NumConstraints(request.pending)]_vars
    /\ [](pc = "running"
            => FilteredOptions(FilteredOptions(request.pending))
                 = FilteredOptions(request.pending))
    /\ [](pc = "returned" /\ request.op = "any_constraints"
            => result = any_constraints(request.options, request.eager))

\* a call returned a list after calling itself on fewer options that hold
\* fewer constraints
C25_Witness ==
    /\ pc = "returned" /\ request.op = "any_constraints"
    /\ Len(request.pending) < Len(request.options)
    /\ NumConstraints(request.pending) < NumConstraints(request.options)
    /\ result # <<>>
====
